---- MODULE Spec2Model ----
(***************************************************************************)
(* Agent provisioning workflow of buddy-agent (service/agent): CreateAgent  *)
(* with its compensating delete, the social-profile placeholder upsert, the *)
(* detached enrichment job and the read-only handlers.                      *)
(*                                                                          *)
(* Text is modelled as a sequence of one-character strings; template text   *)
(* of the prompt builders is kept as single multi-character tokens.          *)
(* The document store, the LLM, the image generator and the object storage  *)
(* are collaborators: every call to one of them either succeeds or fails.   *)
(***************************************************************************)
EXTENDS Integers, Sequences, FiniteSets, TLC

\* ---------------------------------------------------------------- bounds
\* Number of concurrent CreateAgent requests (and of harness callers).
MaxInvocations == 2
\* Largest value the wall clock reaches.
MaxClock == 2
\* Chat prompts sent to the LLM in one behaviour.
MaxChats == 1

\* ------------------------------------------------------- program constants
maxSocialUsernameLength == 20
\* The timeouts, in seconds.
dbRequestTimeout == 5
llmRequestTimeout == 20
imageRequestTimeout == 60
socialProfileJobTimeout == 90
maxStatusLength == 140
hexSuffixLength == 4
StatusOK == 200
StatusCreated == 201
StatusBadRequest == 400
StatusNotFound == 404
StatusBadGateway == 502
StatusUnauthorized == 401
StatusInternalServerError == 500

Procs == 1..MaxInvocations

\* ------------------------------------------------------------------ text
Empty == <<>>

\* unicode.IsSpace restricted to the characters the model draws from.
SpaceChars == {" ", "\n", "\t"}
IsSpace(c) == c \in SpaceChars

RECURSIVE TrimLeft(_, _)
TrimLeft(s, cutset) ==
    IF s # <<>> /\ Head(s) \in cutset THEN TrimLeft(Tail(s), cutset) ELSE s

RECURSIVE TrimRight(_, _)
TrimRight(s, cutset) ==
    IF s # <<>> /\ s[Len(s)] \in cutset
    THEN TrimRight(SubSeq(s, 1, Len(s) - 1), cutset)
    ELSE s

\* strings.TrimSpace
TrimSpace(s) == TrimRight(TrimLeft(s, SpaceChars), SpaceChars)

\* strings.TrimPrefix(text, "@")
TrimPrefixAt(s) == IF s # <<>> /\ Head(s) = "@" THEN Tail(s) ELSE s

\* strings.ReplaceAll(text, " ", "")
RemoveBlanks(s) == SelectSeq(s, LAMBDA c : c # " ")

Digits == {"0", "1", "2", "3", "4", "5", "6", "7", "8", "9"}
LowerSeq == <<"a", "b", "c", "d", "e", "f", "g", "h", "i", "j", "k", "l", "m",
              "n", "o", "p", "q", "r", "s", "t", "u", "v", "w", "x", "y", "z">>
UpperSeq == <<"A", "B", "C", "D", "E", "F", "G", "H", "I", "J", "K", "L", "M",
              "N", "O", "P", "Q", "R", "S", "T", "U", "V", "W", "X", "Y", "Z">>
LowerLetters == {LowerSeq[n] : n \in 1..26}

\* unicode.ToLower
ToLower(c) ==
    IF \E n \in 1..26 : UpperSeq[n] = c
    THEN LowerSeq[CHOOSE n \in 1..26 : UpperSeq[n] = c]
    ELSE c

\* The rune filter of sanitizeUsername: digits, '_' and '.' are kept, letters
\* are lowered, everything else is dropped.
KeptRune(r) == r \in Digits \/ r = "_" \/ r = "." \/ ToLower(r) \in LowerLetters
FilterUsernameRunes(s) ==
    LET kept == SelectSeq(s, KeptRune)
    IN  [n \in 1..Len(kept) |-> IF kept[n] \in Digits THEN kept[n] ELSE ToLower(kept[n])]

\* strings.Trim(s, "._")
TrimDots(s) == TrimRight(TrimLeft(s, {".", "_"}), {".", "_"})

Truncate(s, n) == IF Len(s) > n THEN SubSeq(s, 1, n) ELSE s

sanitizeUsername(text) ==
    LET t == RemoveBlanks(TrimPrefixAt(TrimSpace(text)))
    IN  IF t = <<>> THEN <<>>
        ELSE LET username == TrimDots(FilterUsernameRunes(t))
             IN  IF username = <<>> THEN <<>>
                 ELSE Truncate(username, maxSocialUsernameLength)

\* strings.Fields followed by strings.Join(" "): runs of white space become
\* one blank, leading and trailing white space disappears. A position is kept
\* when it holds a character of a field, or starts the white space between
\* two fields.
FieldPositions(s) ==
    SelectSeq([n \in 1..Len(s) |-> n],
              LAMBDA n : \/ ~IsSpace(s[n])
                         \/ /\ n > 1 /\ ~IsSpace(s[n - 1])
                            /\ \E m \in (n + 1)..Len(s) : ~IsSpace(s[m]))

JoinFields(s) ==
    LET at == FieldPositions(s)
    IN  [k \in 1..Len(at) |-> IF IsSpace(s[at[k]]) THEN " " ELSE s[at[k]]]

\* strings.ReplaceAll(text, "\n", " ")
ReplaceNewlines(s) == [n \in 1..Len(s) |-> IF s[n] = "\n" THEN " " ELSE s[n]]

\* Fault: the status is not cut at 140 runes.
sanitizeStatus_NoTruncate(text) == TrimSpace(JoinFields(ReplaceNewlines(text)))

sanitizeStatus(text) ==
    LET t == TrimSpace(JoinFields(ReplaceNewlines(text)))
    IN  IF Len(t) > maxStatusLength
        THEN TrimSpace(SubSeq(t, 1, maxStatusLength))
        ELSE t

\* ------------------------------------------------------------ identifiers
\* primitive.ObjectID: 0 is the zero value. Identifiers are opaque and only
\* compared: the one NewObjectID call of request i yields i, which no other
\* call yields.
NoID == 0
NewObjectID(i) == i

\* ObjectID.Hex(): the leading hex digits hold the creation time, the last one
\* modelled here tells two identifiers apart.
HexDigits == <<"1", "2", "3", "4", "5", "6", "7", "8", "9", "a", "b", "c", "d", "e", "f">>
Hex(id) == <<"6", "9", "0", "7", HexDigits[id]>>

\* Object storage: the key of an agent's base portrait and the URI UploadImage
\* returns for it (s3service.go: key = prefix/objectName + ".png").
ObjectName(id) == Hex(id) \o <<"-base">>
ObjectKey(name) == name \o <<".png">>
httpURL(key) == <<"https://bucket.s3.amazonaws.com/">> \o key

\* ---------------------------------------------------------------- prompts
buildSystemPrompt(name, personality, gender) ==
    TrimSpace(<<"You are ">> \o name \o <<", a human-like friend. Personality: ">>
              \o personality \o <<". Gender identity: ">> \o gender
              \o <<".\nStay in character ... warm and human.">>)

\* ------------------------------------------------------------ collections
\* A document of the agents collection (CreateAgent's bson.M).
AgentDoc(id, p, appearance, now) ==
    [id |-> id, name |-> p.name, personality |-> p.personality, gender |-> p.gender,
     system_prompt |-> p.system_prompt, appearance_description |-> appearance,
     base_url |-> Empty, created_at |-> now]

\* collection.InsertOne: the _id index refuses a second document with the id.
InsertOne(coll, doc) == coll \cup {doc}

Matching(coll, id) == {d \in coll : d.id = id}

\* Fault: the delete is never carried out.
DeleteOne_Noop(coll, id) == coll

\* Fault: a delete with an empty filter over the whole collection.
DeleteOne_Range(coll, id) == {}

\* collection.DeleteOne(bson.M{"_id": id}): removes one matching document.
DeleteOne(coll, id) ==
    IF Matching(coll, id) = {} THEN coll
    ELSE coll \ {CHOOSE d \in Matching(coll, id) : TRUE}

\* collection.UpdateByID(id, {"$set": {"base_appearance_referance_url": uri}})
UpdateByID(coll, id, uri) ==
    IF Matching(coll, id) = {} THEN coll
    ELSE LET d == CHOOSE x \in Matching(coll, id) : TRUE
         IN  (coll \ {d}) \cup {[d EXCEPT !.base_url = uri]}

ProfilesOf(coll, agentID) == {d \in coll : d.agent_id = agentID}

\* The _id the store gives a profile it inserts: fresh, as no profile is ever
\* removed.
FreshProfileID(coll, agentID) == <<agentID, Cardinality(ProfilesOf(coll, agentID)) + 1>>

\* Fault: the upsert option is missing, nothing is inserted.
UpsertProfile_UpdateOnly(coll, agentID, username, now) ==
    IF ProfilesOf(coll, agentID) = {} THEN coll
    ELSE LET d == CHOOSE x \in ProfilesOf(coll, agentID) : TRUE
         IN  (coll \ {d}) \cup {[d EXCEPT !.updated_at = now]}

\* Fault: InsertOne in place of the upsert.
UpsertProfile_InsertAlways(coll, agentID, username, now) ==
    coll \cup {[pid |-> FreshProfileID(coll, agentID), agent_id |-> agentID,
                username |-> username, status |-> Empty, profile_url |-> Empty,
                created_at |-> now, updated_at |-> now]}

\* Fault: username is under $set, not under $setOnInsert.
UpsertProfile_SetAlways(coll, agentID, username, now) ==
    IF ProfilesOf(coll, agentID) = {}
    THEN coll \cup {[pid |-> FreshProfileID(coll, agentID), agent_id |-> agentID, username |-> username,
                     status |-> Empty, profile_url |-> Empty,
                     created_at |-> now, updated_at |-> now]}
    ELSE LET d == CHOOSE x \in ProfilesOf(coll, agentID) : TRUE
         IN  (coll \ {d}) \cup {[d EXCEPT !.username = username, !.updated_at = now]}

\* profiles.UpdateOne(filter agent_id, {$setOnInsert ..., $set updated_at},
\* upsert): one single-document write of the store.
UpsertProfile(coll, agentID, username, now) ==
    IF ProfilesOf(coll, agentID) = {}
    THEN coll \cup {[pid |-> FreshProfileID(coll, agentID), agent_id |-> agentID, username |-> username,
                     status |-> Empty, profile_url |-> Empty,
                     created_at |-> now, updated_at |-> now]}
    ELSE LET d == CHOOSE x \in ProfilesOf(coll, agentID) : TRUE
         IN  (coll \ {d}) \cup {[d EXCEPT !.updated_at = now]}

\* Fault: the enrichment update carries the upsert option.
UpdateProfile_Upsert(coll, agentID, username, status, url, now) ==
    IF ProfilesOf(coll, agentID) = {}
    THEN coll \cup {[pid |-> FreshProfileID(coll, agentID), agent_id |-> agentID,
                     username |-> username, status |-> status, profile_url |-> url,
                     created_at |-> now, updated_at |-> now]}
    ELSE LET d == CHOOSE x \in ProfilesOf(coll, agentID) : TRUE
         IN  (coll \ {d}) \cup {[d EXCEPT !.username = username, !.status = status,
                                          !.profile_url = url, !.updated_at = now]}

\* result.MatchedCount of an UpdateOne with the filter agent_id.
MatchedCount(coll, agentID) == IF ProfilesOf(coll, agentID) = {} THEN 0 ELSE 1

\* Fault: the enrichment update does not set profile_url.
UpdateProfile_KeepURL(coll, agentID, username, status, url, now) ==
    IF ProfilesOf(coll, agentID) = {} THEN coll
    ELSE LET d == CHOOSE x \in ProfilesOf(coll, agentID) : TRUE
         IN  (coll \ {d}) \cup {[d EXCEPT !.username = username, !.status = status,
                                          !.updated_at = now]}

\* profiles.UpdateOne(filter agent_id, {$set username, status, profile_url,
\* updated_at}) without upsert.
UpdateProfile(coll, agentID, username, status, url, now) ==
    IF ProfilesOf(coll, agentID) = {} THEN coll
    ELSE LET d == CHOOSE x \in ProfilesOf(coll, agentID) : TRUE
         IN  (coll \ {d}) \cup {[d EXCEPT !.username = username, !.status = status,
                                          !.profile_url = url, !.updated_at = now]}

\* ------------------------------------------------------------------ inputs
\* The JSON payloads the clients send.
FieldTexts == {<<" ">>, <<"M", "i">>}
Payloads == [name : FieldTexts, personality : {<<" ">>, <<"p">>}, gender : {<<" ">>, <<"f">>}]
\* Texts the LLM answers with.
AppearanceTexts == {<<"t", "a", "l", "l", " ">>}
UsernameTexts == {<<"M", "i">>, <<"@", "z", "o">>}
StatusTexts == {<<" ">>, <<"h", "i", "\n", "y", "o">>}

\* ------------------------------------------------------------------- state
VARIABLES
    agents,     \* the agents collection
    profiles,   \* the agent_social_profiles collection
    objects,    \* keys of the objects held by the object storage
    clock,      \* time.Now()
    req,        \* per CreateAgent request: position, locals, and the calls it
                \* has issued to its collaborators, in order
    job,        \* per enrichment job: position and locals
    logs,       \* what log.Printf has written
    listed,     \* the body of the ListAgents / chat response being written
    arg,        \* the argument of a text function called on its own
    result,     \* what that function has returned, call after call
    history,    \* the history the one llmservice.Client keeps
    llm,        \* the SendPrompt calls in progress on that client, and which
                \* call has written which message of the history
    users,      \* the users collection
    login       \* per Login request: position, locals and responses

vars == <<agents, profiles, objects, clock, req, job, logs, listed, arg, result, history, llm, users, login>>

\* No text function has been called.
NoResult == [fn |-> "", name |-> <<>>, outs |-> <<>>]

\* No read-only handler is writing a response.
NoReply == <<>>

NoResponse == [status |-> 0, error |-> "", body |-> <<>>]
NoPayload == [name |-> Empty, personality |-> Empty, gender |-> Empty, system_prompt |-> Empty]

IdleReq ==
    [pc |-> "idle", body |-> <<>>, payload |-> NoPayload, appearance |-> Empty, agentID |-> NoID,
     baseImageURL |-> Empty, reason |-> "", failed |-> "", now |-> 0,
     calls |-> <<>>, response |-> NoResponse, cancelled |-> ""]

IdleJob ==
    [pc |-> "none", agentID |-> NoID, stored |-> <<>>, username |-> Empty,
     status |-> Empty, now |-> 0, err |-> "", ctx |-> ""]

\* r.Context() of request i is cancelled: the client's connection has closed
\* (cancelled names the step the handler was at) or ServeHTTP has returned.
RequestCtxDone(i) == req[i].cancelled # "" \/ req[i].pc = "done"

\* The context the steps of job i run under is cancelled. A context made from
\* context.Background() is cancelled by its own deadline only, which the
\* failing branch of each step covers.
JobCtxDone(i) == job[i].ctx = "request" /\ RequestCtxDone(i)

\* A caller of the llmservice.Client that is not inside SendPrompt: n counts
\* the SendPrompt calls it has made, request is what its last call has
\* transmitted, epoch the number of resets that had happened when that call
\* began, ret and err what the call returned.
IdleCall ==
    [pc |-> "idle", n |-> 0, prompt |-> Empty, request |-> <<>>, epoch |-> 0,
     ret |-> Empty, err |-> ""]

\* turns[k] names the call that appended history[k], for the calls made on the
\* client directly; resets counts the ResetHistory calls that have returned.
NoCalls == [call |-> [i \in Procs |-> IdleCall], turns |-> <<>>, resets |-> 0]

\* A Login request that has not been received.
IdleLogin ==
    [pc |-> "idle", n |-> 0, uid |-> "", now |-> 0, matched |-> FALSE,
     upserted |-> 0, response |-> NoResponse, reports |-> <<>>]

Init ==
    /\ agents = {}
    /\ profiles = {}
    /\ objects = {}
    /\ clock = 0
    /\ req = [i \in Procs |-> IdleReq]
    /\ job = [i \in Procs |-> IdleJob]
    /\ logs = {}
    /\ listed = NoReply
    /\ arg = Empty
    /\ result = NoResult
    /\ history = <<>>
    /\ llm = NoCalls
    /\ users = {}
    /\ login = [i \in Procs |-> IdleLogin]

\* ------------------------------------------------------- llmservice.Client
\* sanitizeMessage: role and content trimmed, a blank role is "user"; a blank
\* content is the error "prompt is required" of the caller.
sanitizeMessage(role, content) ==
    [role |-> IF role = "" THEN "user" ELSE role, content |-> TrimSpace(content)]

\* appendAndSnapshot: the history with the message appended, which is also the
\* snapshot returned.
appendAndSnapshot(h, msg) == Append(h, msg)

\* appendAssistantMessage: a blank text is not appended.
appendAssistantMessage(h, text) ==
    IF TrimSpace(text) = Empty THEN h
    ELSE Append(h, [role |-> "assistant", content |-> TrimSpace(text)])

normalizeAPIRole(role) == IF role \in {"model", "assistant"} THEN "model" ELSE "user"

\* Fault: the request carries the last message only.
messagesToContents_LastOnly(h) ==
    IF h = <<>> THEN <<>>
    ELSE <<[role |-> normalizeAPIRole(h[Len(h)].role), text |-> TrimSpace(h[Len(h)].content)]>>

\* messagesToContents: one content per message that is not blank, in order.
messagesToContents(h) ==
    LET kept == SelectSeq(h, LAMBDA m : TrimSpace(m.content) # Empty)
    IN  [k \in 1..Len(kept) |->
            [role |-> normalizeAPIRole(kept[k].role), text |-> TrimSpace(kept[k].content)]]

\* extractTextPart: the text of the answer, trimmed; an answer that is then
\* empty makes SendPrompt return "google api returned empty response".
extractTextPart(part) == TrimSpace(part)

\* The history after a SendPrompt whose request failed or was answered with
\* nothing: appendAndSnapshot has stored the user message.
SendPromptFailed(h, prompt) == Append(h, sanitizeMessage("user", prompt))

\* The history after a SendPrompt that returned text: appendAndSnapshot, then
\* appendAssistantMessage.
SendPromptAnswered(h, prompt, answer) ==
    Append(SendPromptFailed(h, prompt),
           [role |-> "assistant", content |-> extractTextPart(answer)])

\* The prompt templates: each fixed piece of a template is one symbol.
buildAppearancePrompt(name, personality, gender) ==
    TrimSpace(<<"\n", "appearance of:">> \o name \o <<"personality:">> \o personality
              \o <<"gender identity:">> \o gender \o <<"visual cues only", "\n">>)

buildSocialUsernamePrompt(name, personality) ==
    TrimSpace(<<"\n", "username for:">> \o name \o <<"personality:">> \o personality
              \o <<"only the username", "\n">>)

buildSocialStatusPrompt(name, personality) ==
    TrimSpace(<<"\n", "status line for:">> \o name \o <<"personality:">> \o personality
              \o <<"quick feed update", "\n">>)

\* ------------------------------------------------------------ CreateAgent
respondJSONError(status, msg) == [status |-> status, error |-> msg, body |-> <<>>]

\* Fault: only the name is required.
CreateAgentBegin_NameOnly(i, p) ==
    /\ req[i].pc = "idle"
    /\ LET name == TrimSpace(p.name)
           personality == TrimSpace(p.personality)
           gender == TrimSpace(p.gender)
       IN  IF name = Empty
           THEN req' = [req EXCEPT ![i].pc = "done", ![i].body = p,
                            ![i].response = respondJSONError(StatusBadRequest,
                                "name, personality, and gender are required")]
           ELSE req' = [req EXCEPT ![i].pc = "appearance", ![i].body = p,
                            ![i].payload = [name |-> name, personality |-> personality,
                                gender |-> gender,
                                system_prompt |-> buildSystemPrompt(name, personality, gender)]]
    /\ UNCHANGED <<agents, profiles, objects, clock, job, logs>>
    /\ listed' = NoReply
    /\ UNCHANGED <<arg, result, history, llm, users, login>>

\* Decode, trim and validate the payload, then compose the system prompt.
CreateAgentBegin(i, p) ==
    /\ req[i].pc = "idle"
    /\ LET name == TrimSpace(p.name)
           personality == TrimSpace(p.personality)
           gender == TrimSpace(p.gender)
       IN  IF name = Empty \/ personality = Empty \/ gender = Empty
           THEN req' = [req EXCEPT ![i].pc = "done", ![i].body = p,
                            ![i].response = respondJSONError(StatusBadRequest,
                                "name, personality, and gender are required")]
           ELSE req' = [req EXCEPT ![i].pc = "appearance", ![i].body = p,
                            ![i].payload = [name |-> name, personality |-> personality,
                                gender |-> gender,
                                system_prompt |-> buildSystemPrompt(name, personality, gender)]]
    /\ UNCHANGED <<agents, profiles, objects, clock, job, logs>>
    /\ listed' = NoReply
    /\ UNCHANGED <<arg, result, history, llm, users, login>>

\* Fault: the document is inserted before the appearance text is requested.
GenerateAppearance_InsertFirst(i) ==
    /\ req[i].pc = "appearance"
    /\ agents' = InsertOne(agents, AgentDoc(NewObjectID(i), req[i].payload, Empty, clock))
    /\ req' = [req EXCEPT ![i].pc = "done",
                   ![i].calls = <<"insert", "llm">>,
                   ![i].response = respondJSONError(StatusBadGateway,
                       "failed to generate appearance")]
    /\ history' = SendPromptFailed(history,
                      buildAppearancePrompt(req[i].payload.name, req[i].payload.personality,
                                            req[i].payload.gender))
    /\ UNCHANGED <<profiles, objects, clock, job, logs>>
    /\ listed' = NoReply
    /\ UNCHANGED <<arg, result, llm, users, login>>

\* generateAppearanceDescription, then primitive.NewObjectID().
GenerateAppearance(i) ==
    /\ req[i].pc = "appearance"
    /\ LET prompt == buildAppearancePrompt(req[i].payload.name, req[i].payload.personality,
                                           req[i].payload.gender)
       IN  \/ /\ req' = [req EXCEPT ![i].pc = "done",
                             ![i].calls = Append(@, "llm"),
                             ![i].response = respondJSONError(StatusBadGateway,
                                 "failed to generate appearance")]
              /\ history' = SendPromptFailed(history, prompt)
           \/ \E text \in AppearanceTexts :
                 /\ ~RequestCtxDone(i)
                 /\ extractTextPart(text) # Empty
                 /\ req' = [req EXCEPT ![i].pc = "insert",
                                ![i].calls = Append(@, "llm"),
                                ![i].appearance = TrimSpace(extractTextPart(text)),
                                ![i].agentID = NewObjectID(i),
                                ![i].now = clock]
                 /\ history' = SendPromptAnswered(history, prompt, text)
    /\ UNCHANGED <<agents, profiles, objects, clock, job, logs>>
    /\ listed' = NoReply
    /\ UNCHANGED <<arg, result, llm, users, login>>

\* collection.InsertOne(dbCtx, doc)
InsertAgent(i) ==
    /\ req[i].pc = "insert"
    /\ \/ /\ ~RequestCtxDone(i)
          /\ agents' = InsertOne(agents,
                  AgentDoc(req[i].agentID, req[i].payload, req[i].appearance, req[i].now))
          /\ req' = [req EXCEPT ![i].pc = "load", ![i].calls = Append(@, "insert")]
       \/ /\ req' = [req EXCEPT ![i].pc = "done",
                         ![i].calls = Append(@, "insert"),
                         ![i].response = respondJSONError(StatusInternalServerError,
                             "failed to create agent")]
          /\ UNCHANGED agents
    /\ UNCHANGED <<profiles, objects, clock, job, logs>>
    /\ listed' = NoReply
    /\ UNCHANGED <<arg, result, history, llm, users, login>>

\* Fault: a failed call is issued again.
FailStep_Retry(i, step, call, reason) ==
    [req EXCEPT ![i].calls = Append(@, call)]

\* A step of CreateAgent after the insert failed: cleanupAgent(reason) is next.
FailStep(i, step, call, reason) ==
    [req EXCEPT ![i].pc = "cleanup", ![i].failed = step, ![i].reason = reason,
                ![i].calls = Append(@, call)]

\* generateAndPersistBaseAppearance: FindOne of the agent just inserted.
LoadAgentForImage(i) ==
    /\ req[i].pc = "load"
    /\ \E ok \in BOOLEAN :
          req' = IF ok /\ ~RequestCtxDone(i) /\ Matching(agents, req[i].agentID) # {}
                 THEN [req EXCEPT ![i].pc = "image", ![i].calls = Append(@, "find")]
                 ELSE FailStep(i, "load", "find", "base-appearance generation")
    /\ UNCHANGED <<agents, profiles, objects, clock, job, logs>>
    /\ listed' = NoReply
    /\ UNCHANGED <<arg, result, history, llm, users, login>>

\* generateAndPersistBaseAppearance: h.imageGen.GenerateImage
GenerateImage(i) ==
    /\ req[i].pc = "image"
    /\ \/ /\ ~RequestCtxDone(i)
          /\ req' = [req EXCEPT ![i].pc = "upload", ![i].calls = Append(@, "image")]
       \/ req' = FailStep(i, "image", "image", "base-appearance generation")
    /\ UNCHANGED <<agents, profiles, objects, clock, job, logs>>
    /\ listed' = NoReply
    /\ UNCHANGED <<arg, result, history, llm, users, login>>

\* Fault: the error of the upload is dropped and its URL used.
UploadImage_ErrorIgnored(i) ==
    /\ req[i].pc = "upload"
    /\ LET key == ObjectKey(ObjectName(req[i].agentID))
       IN  /\ \/ objects' = objects \cup {key}
              \/ UNCHANGED objects
           /\ req' = [req EXCEPT ![i].pc = "update", ![i].baseImageURL = httpURL(key),
                          ![i].calls = Append(@, "upload")]
    /\ UNCHANGED <<agents, profiles, clock, job, logs>>
    /\ listed' = NoReply
    /\ UNCHANGED <<arg, result, history, llm, users, login>>

\* generateAndPersistBaseAppearance: h.storage.UploadImage
UploadImage(i) ==
    /\ req[i].pc = "upload"
    /\ LET key == ObjectKey(ObjectName(req[i].agentID))
       IN  \/ /\ ~RequestCtxDone(i)
              /\ objects' = objects \cup {key}
              /\ req' = [req EXCEPT ![i].pc = "update", ![i].baseImageURL = httpURL(key),
                             ![i].calls = Append(@, "upload")]
           \/ /\ req' = FailStep(i, "upload", "upload", "base-appearance generation")
              /\ UNCHANGED objects
    /\ UNCHANGED <<agents, profiles, clock, job, logs>>
    /\ listed' = NoReply
    /\ UNCHANGED <<arg, result, history, llm, users, login>>

\* generateAndPersistBaseAppearance: collection.UpdateByID with the URI; on
\* success CreateAgent goes on to createInitialSocialProfile, which reads the
\* time before it issues its upsert.
UpdateAgentImage(i) ==
    /\ req[i].pc = "update"
    /\ \/ /\ ~RequestCtxDone(i)
          /\ agents' = UpdateByID(agents, req[i].agentID, req[i].baseImageURL)
          /\ req' = [req EXCEPT ![i].pc = "placeholder", ![i].now = clock,
                         ![i].calls = Append(@, "update")]
       \/ /\ req' = [FailStep(i, "update", "update", "base-appearance generation")
                        EXCEPT ![i].baseImageURL = Empty]
          /\ UNCHANGED agents
    /\ UNCHANGED <<profiles, objects, clock, job, logs>>
    /\ listed' = NoReply
    /\ UNCHANGED <<arg, result, history, llm, users, login>>

\* The username createInitialSocialProfile writes on insert.
InitialUsername(name, id) ==
    IF TrimSpace(name) = Empty THEN <<"a", "g", "e", "n", "t", "_">> \o Hex(id)
    ELSE TrimSpace(name)

\* Fault: the error of the placeholder upsert is dropped.
UpsertPlaceholder_ErrorIgnored(i) ==
    /\ req[i].pc = "placeholder"
    /\ req' = [req EXCEPT ![i].pc = "respond", ![i].calls = Append(@, "upsert")]
    /\ UNCHANGED <<agents, profiles, objects, clock, job, logs>>
    /\ listed' = NoReply
    /\ UNCHANGED <<arg, result, history, llm, users, login>>

\* Fault: the placeholder upsert is applied by the store and reported to the
\* handler as failed.
UpsertPlaceholder_WriteThenFail(i) ==
    /\ req[i].pc = "placeholder"
    /\ profiles' = UpsertProfile(profiles, req[i].agentID,
            InitialUsername(req[i].payload.name, req[i].agentID), req[i].now)
    /\ req' = FailStep(i, "placeholder", "upsert", "social-profile placeholder")
    /\ UNCHANGED <<agents, objects, clock, job, logs>>
    /\ listed' = NoReply
    /\ UNCHANGED <<arg, result, history, llm, users, login>>

\* createInitialSocialProfile: the upsert of the placeholder.
UpsertPlaceholder(i) ==
    /\ req[i].pc = "placeholder"
    /\ \/ /\ ~RequestCtxDone(i)
          /\ profiles' = UpsertProfile(profiles, req[i].agentID,
                  InitialUsername(req[i].payload.name, req[i].agentID),
                  req[i].now)
          /\ req' = [req EXCEPT ![i].pc = "respond", ![i].calls = Append(@, "upsert")]
       \/ /\ req' = FailStep(i, "placeholder", "upsert", "social-profile placeholder")
          /\ UNCHANGED profiles
    /\ UNCHANGED <<agents, objects, clock, job, logs>>
    /\ listed' = NoReply
    /\ UNCHANGED <<arg, result, history, llm, users, login>>

\* Fault: a failed cleanup replaces the error of the failed step.
CleanupResponse_DeleteErrorWins(reason, deleted) ==
    IF ~deleted
    THEN respondJSONError(StatusInternalServerError, "failed to clean up agent")
    ELSE IF reason = "base-appearance generation"
    THEN respondJSONError(StatusBadGateway, "failed to generate base appearance")
    ELSE respondJSONError(StatusInternalServerError, "failed to create social profile")

\* The error CreateAgent answers with after cleanupAgent(reason).
CleanupResponse(reason, deleted) ==
    IF reason = "base-appearance generation"
    THEN respondJSONError(StatusBadGateway, "failed to generate base appearance")
    ELSE respondJSONError(StatusInternalServerError, "failed to create social profile")

\* cleanupAgent(reason): DeleteOne by the invocation's own id, its failure
\* only logged; then the error response of the failed step.
CleanupAgent(i) ==
    /\ req[i].pc = "cleanup"
    /\ \E deleted \in BOOLEAN :
          /\ agents' = IF deleted THEN DeleteOne(agents, req[i].agentID) ELSE agents
          /\ logs' = IF deleted THEN logs
                     ELSE logs \cup {[kind |-> "cleanup", id |-> req[i].agentID,
                                      what |-> req[i].reason]}
          /\ req' = [req EXCEPT ![i].pc = "done",
                         ![i].calls = Append(@, "delete"),
                         ![i].response = CleanupResponse(req[i].reason, deleted)]
    /\ UNCHANGED <<profiles, objects, clock, job>>
    /\ listed' = NoReply
    /\ UNCHANGED <<arg, result, history, llm, users, login>>

\* The 201 response: the commit point.
RespondCreated(i) ==
    /\ req[i].pc = "respond"
    /\ req' = [req EXCEPT ![i].pc = "launch",
                   ![i].response = [status |-> StatusCreated, error |-> "",
                       body |-> [id |-> req[i].agentID, name |-> req[i].payload.name,
                                 personality |-> req[i].payload.personality,
                                 gender |-> req[i].payload.gender,
                                 profile_image_url |-> req[i].baseImageURL,
                                 appearance_description |-> req[i].appearance,
                                 base_url |-> req[i].baseImageURL]]]
    /\ UNCHANGED <<agents, profiles, objects, clock, job, logs>>
    /\ listed' = NoReply
    /\ UNCHANGED <<arg, result, history, llm, users, login>>

\* Fault: the cleanup is deferred and so runs on the success path as well.
LaunchSocialProfileJob_DeferredCleanup(i) ==
    /\ req[i].pc = "launch"
    /\ req' = [req EXCEPT ![i].pc = "done", ![i].calls = Append(@, "go")]
    /\ job' = [job EXCEPT ![i] = [IdleJob EXCEPT !.pc = "load",
                                                  !.agentID = req[i].agentID]]
    /\ agents' = DeleteOne(agents, req[i].agentID)
    /\ UNCHANGED <<profiles, objects, clock, logs>>
    /\ listed' = NoReply
    /\ UNCHANGED <<arg, result, history, llm, users, login>>

\* Fault: the goroutine is never started.
LaunchSocialProfileJob_NotStarted(i) ==
    /\ req[i].pc = "launch"
    /\ req' = [req EXCEPT ![i].pc = "done", ![i].calls = Append(@, "go")]
    /\ UNCHANGED <<agents, profiles, objects, clock, job, logs>>
    /\ listed' = NoReply
    /\ UNCHANGED <<arg, result, history, llm, users, login>>

\* Fault: the goroutine runs under the context of the request.
LaunchSocialProfileJob_RequestContext(i) ==
    /\ req[i].pc = "launch"
    /\ req' = [req EXCEPT ![i].pc = "done", ![i].calls = Append(@, "go")]
    /\ job' = [job EXCEPT ![i] = [IdleJob EXCEPT !.pc = "load",
                                                  !.agentID = req[i].agentID,
                                                  !.ctx = "request"]]
    /\ UNCHANGED <<agents, profiles, objects, clock, logs>>
    /\ listed' = NoReply
    /\ UNCHANGED <<arg, result, history, llm, users, login>>

\* launchSocialProfileJob: go func(id) with a context of its own, made from
\* context.Background().
LaunchSocialProfileJob(i) ==
    /\ req[i].pc = "launch"
    /\ req' = [req EXCEPT ![i].pc = "done", ![i].calls = Append(@, "go")]
    /\ job' = IF req[i].agentID = NoID THEN job
              ELSE [job EXCEPT ![i] = [IdleJob EXCEPT !.pc = "load",
                                                       !.agentID = req[i].agentID,
                                                       !.ctx = "background"]]
    /\ UNCHANGED <<agents, profiles, objects, clock, logs>>
    /\ listed' = NoReply
    /\ UNCHANGED <<arg, result, history, llm, users, login>>

\* --------------------------------------------------------- enrichment job
fallbackSocialUsername(agent, seed) ==
    LET b1 == sanitizeUsername(seed)
        b2 == IF b1 = Empty THEN sanitizeUsername(agent.name) ELSE b1
        base == IF b2 = Empty THEN <<"a", "g", "e", "n", "t">> ELSE b2
        suffix == Truncate(Hex(agent.id), hexSuffixLength)
        candidate == sanitizeUsername(base \o <<"_">> \o suffix)
    IN  IF candidate = Empty
        THEN sanitizeUsername(<<"b", "u", "d", "d", "y", "_">> \o suffix)
        ELSE candidate

\* generateSocialUsername after the LLM answered with text.
SocialUsername(agent, text) ==
    LET u1 == sanitizeUsername(text)
        u2 == IF u1 = Empty THEN fallbackSocialUsername(agent, agent.name) ELSE u1
        agentHandle == sanitizeUsername(agent.name)
    IN  IF agentHandle # Empty /\ u2 = agentHandle
        THEN fallbackSocialUsername(agent, u2)
        ELSE u2

\* Fault: a failed step sends the job back to its first step.
JobFail_Retry(i, err) ==
    /\ job' = [job EXCEPT ![i] = [IdleJob EXCEPT !.pc = "load",
                                                  !.agentID = job[i].agentID]]
    /\ logs' = logs \cup {[kind |-> "job", id |-> job[i].agentID, what |-> err]}

\* The goroutine of launchSocialProfileJob logs the error and ends.
JobFail(i, err) ==
    /\ job' = [job EXCEPT ![i] = [IdleJob EXCEPT !.pc = "done",
                                                  !.agentID = job[i].agentID,
                                                  !.err = err]]
    /\ logs' = logs \cup {[kind |-> "job", id |-> job[i].agentID, what |-> err]}

\* generateAndPersistSocialProfile: FindOne of the agent.
JobLoadAgent(i) ==
    /\ job[i].pc = "load"
    /\ \E ok \in BOOLEAN :
          IF ok /\ ~JobCtxDone(i) /\ Matching(agents, job[i].agentID) # {}
          THEN /\ job' = [job EXCEPT ![i].pc = "username",
                              ![i].stored = CHOOSE d \in Matching(agents, job[i].agentID) : TRUE]
               /\ UNCHANGED logs
          ELSE JobFail(i, "load agent for social profile")
    /\ UNCHANGED <<agents, profiles, objects, clock, req>>
    /\ listed' = NoReply
    /\ UNCHANGED <<arg, result, history, llm, users, login>>

\* generateSocialUsername
JobUsername(i) ==
    /\ job[i].pc = "username"
    /\ LET prompt == buildSocialUsernamePrompt(job[i].stored.name, job[i].stored.personality)
       IN  \/ /\ JobFail(i, "social username prompt error")
              /\ history' = SendPromptFailed(history, prompt)
           \/ \E text \in UsernameTexts :
                 LET username == SocialUsername(job[i].stored, extractTextPart(text))
                 IN  /\ ~JobCtxDone(i)
                     /\ extractTextPart(text) # Empty
                     /\ history' = SendPromptAnswered(history, prompt, text)
                     /\ IF username = Empty
                        THEN JobFail(i, "social username prompt returned empty response")
                        ELSE /\ job' = [job EXCEPT ![i].pc = "status",
                                                   ![i].username = username]
                             /\ UNCHANGED logs
    /\ UNCHANGED <<agents, profiles, objects, clock, req>>
    /\ listed' = NoReply
    /\ UNCHANGED <<arg, result, llm, users, login>>

\* generateSocialStatus, then now := time.Now().UTC()
JobStatus(i) ==
    /\ job[i].pc = "status"
    /\ LET prompt == buildSocialStatusPrompt(job[i].stored.name, job[i].stored.personality)
       IN  \/ /\ JobFail(i, "social status prompt error")
              /\ history' = SendPromptFailed(history, prompt)
           \/ \E text \in StatusTexts :
                 LET status == sanitizeStatus(extractTextPart(text))
                 IN  /\ ~JobCtxDone(i)
                     /\ extractTextPart(text) # Empty
                     /\ history' = SendPromptAnswered(history, prompt, text)
                     /\ IF status = Empty
                        THEN JobFail(i, "social status prompt returned empty response")
                        ELSE /\ job' = [job EXCEPT ![i].pc = "update", ![i].status = status,
                                            ![i].now = clock]
                             /\ UNCHANGED logs
    /\ UNCHANGED <<agents, profiles, objects, clock, req>>
    /\ listed' = NoReply
    /\ UNCHANGED <<arg, result, llm, users, login>>

\* profiles.UpdateOne without upsert, then the MatchedCount check.
JobUpdateProfile(i) ==
    /\ job[i].pc = "update"
    /\ \/ /\ JobFail(i, "update social profile")
          /\ UNCHANGED profiles
       \/ /\ ~JobCtxDone(i)
          /\ profiles' = UpdateProfile(profiles, job[i].agentID, job[i].username,
                              job[i].status, job[i].stored.base_url, job[i].now)
          /\ IF MatchedCount(profiles, job[i].agentID) = 0
             THEN JobFail(i, "social profile placeholder missing")
             ELSE /\ job' = [job EXCEPT ![i] = [IdleJob EXCEPT !.pc = "done",
                                                                !.agentID = job[i].agentID]]
                  /\ UNCHANGED logs
    /\ UNCHANGED <<agents, objects, clock, req>>
    /\ listed' = NoReply
    /\ UNCHANGED <<arg, result, history, llm, users, login>>

\* ----------------------------------------------------------------- readers
agentListItem(a) ==
    [id |-> a.id, name |-> a.name, personality |-> a.personality, gender |-> a.gender,
     profile_image_url |-> Empty, appearance_description |-> a.appearance_description,
     base_url |-> a.base_url]

\* ListAgents: Find(bson.D{}) over the whole collection.
ListAgents ==
    /\ \E ok \in BOOLEAN :
          listed' = IF ok
                    THEN [handler |-> "list", status |-> StatusOK,
                          agents |-> {agentListItem(a) : a \in agents}]
                    ELSE [handler |-> "list", status |-> StatusInternalServerError,
                          agents |-> {}]
    /\ UNCHANGED <<agents, profiles, objects, clock, req, job, logs, arg, result, history, llm, users, login>>

\* Fault: the prompts are joined as they come.
buildChatPrompt_NoTrim(systemPrompt, userPrompt) ==
    IF systemPrompt = Empty THEN userPrompt
    ELSE systemPrompt \o <<"\n\nUser prompt:\n">> \o TrimSpace(userPrompt)

buildChatPrompt(systemPrompt, userPrompt) ==
    IF TrimSpace(systemPrompt) = Empty THEN TrimSpace(userPrompt)
    ELSE TrimSpace(systemPrompt) \o <<"\n\nUser prompt:\n">> \o TrimSpace(userPrompt)

ChatPrompts == {<<" ">>, <<"h", "i">>}
ChatReplyTexts == {<<"y", "o">>}
AgentIDs == 1..(MaxInvocations + 1)

chatReply(status, error, agent, sent, response) ==
    [handler |-> "chat", status |-> status, error |-> error, agent |-> agent,
     sent |-> sent, response |-> response]

\* Fault: every error of the FindOne is answered as "agent not found".
ChatReplies_AnyErrorNotFound(id, prompt) ==
    IF TrimSpace(prompt) = Empty
    THEN {chatReply(StatusBadRequest, "prompt is required", <<>>, <<>>, <<>>)}
    ELSE {chatReply(StatusNotFound, "agent not found", <<>>, <<>>, <<>>)}
         \cup
         IF Matching(agents, id) = {}
         THEN {}
         ELSE LET stored == CHOOSE d \in Matching(agents, id) : TRUE
                  combined == buildChatPrompt(stored.system_prompt, prompt)
              IN  {chatReply(StatusBadGateway, "failed to fetch response",
                             stored, combined, <<>>)}
                  \cup {chatReply(StatusOK, "", stored, combined, text) :
                           text \in ChatReplyTexts}

\* ChatWithAgent: FindOne of the agent, then SendPrompt with the combined
\* prompt. Nothing after the FindOne reads the store, so the handler is one
\* step; ChatReplies are the responses it can end with.
ChatReplies(id, prompt) ==
    IF TrimSpace(prompt) = Empty
    THEN {chatReply(StatusBadRequest, "prompt is required", <<>>, <<>>, <<>>)}
    ELSE {chatReply(StatusInternalServerError, "failed to load agent", <<>>, <<>>, <<>>)}
         \cup
         IF Matching(agents, id) = {}
         THEN {chatReply(StatusNotFound, "agent not found", <<>>, <<>>, <<>>)}
         ELSE LET stored == CHOOSE d \in Matching(agents, id) : TRUE
                  combined == buildChatPrompt(stored.system_prompt, prompt)
              IN  {chatReply(StatusBadGateway, "failed to fetch response",
                             stored, combined, <<>>)}
                  \cup {chatReply(StatusOK, "", stored, combined, text) :
                           text \in ChatReplyTexts}

\* The chat prompts the client's history holds: a stored system prompt is never
\* empty, so every combined prompt carries the separator of buildChatPrompt.
ChatMessages(h) ==
    {k \in 1..Len(h) : h[k].role = "user"
                        /\ \E j \in 1..Len(h[k].content) :
                               h[k].content[j] = "\n\nUser prompt:\n"}

\* The history after the handler ended with the reply: SendPrompt is called
\* exactly when a combined prompt was built.
ChatHistory(h, reply) ==
    IF reply.sent = <<>> THEN h
    ELSE IF reply.status = StatusOK THEN SendPromptAnswered(h, reply.sent, reply.response)
    ELSE SendPromptFailed(h, reply.sent)

ChatWithAgent(id, prompt) ==
    /\ \E reply \in ChatReplies(id, prompt) :
          /\ reply.sent # <<>> => Cardinality(ChatMessages(history)) < MaxChats
          /\ listed' = reply
          /\ history' = ChatHistory(history, reply)
    /\ UNCHANGED <<agents, profiles, objects, clock, req, job, logs, arg, result, llm, users, login>>

\* GetAgentSocialProfile: the filters agent_id and _id, in this order, as far
\* as the query gives them (NoID, NoProfileID: parameter absent); the first FindOne that
\* finds a document ends the loop, ErrNoDocuments moves on to the next filter,
\* any other error ends the loop. SocialProfileReplies are the responses the
\* handler can end with on the store as it is.
NoProfileID == <<>>

profileReply(status, error, profile) ==
    [handler |-> "profile", status |-> status, error |-> error, profile |-> profile]

ProfileFilters(agentID, profileID) ==
    (IF agentID = NoID THEN <<>> ELSE <<[field |-> "agent_id", value |-> agentID]>>)
    \o (IF profileID = NoProfileID THEN <<>> ELSE <<[field |-> "_id", value |-> profileID]>>)

FilterMatches(coll, f) ==
    IF f.field = "agent_id" THEN {d \in coll : d.agent_id = f.value}
    ELSE {d \in coll : d.pid = f.value}

\* Fault: ErrNoDocuments of the first filter ends the loop.
SocialProfileReplies_FirstFilterOnly(agentID, profileID) ==
    LET filters == ProfileFilters(agentID, profileID)
    IN  IF filters = <<>>
        THEN {profileReply(StatusBadRequest, "agentId or profileId is required", <<>>)}
        ELSE {profileReply(StatusInternalServerError, "failed to load social profile", <<>>)}
             \cup
             IF FilterMatches(profiles, filters[1]) = {}
             THEN {profileReply(StatusNotFound, "social profile not ready", <<>>)}
             ELSE {profileReply(StatusOK, "", d) : d \in FilterMatches(profiles, filters[1])}

SocialProfileReplies(agentID, profileID) ==
    LET filters == ProfileFilters(agentID, profileID)
        hits == SelectSeq(filters, LAMBDA f : FilterMatches(profiles, f) # {})
    IN  IF filters = <<>>
        THEN {profileReply(StatusBadRequest, "agentId or profileId is required", <<>>)}
        ELSE {profileReply(StatusInternalServerError, "failed to load social profile", <<>>)}
             \cup
             IF hits = <<>>
             THEN {profileReply(StatusNotFound, "social profile not ready", <<>>)}
             ELSE {profileReply(StatusOK, "", d) : d \in FilterMatches(profiles, hits[1])}

ProfileIDs == {NoProfileID} \cup {FreshProfileID({}, id) : id \in Procs}

GetAgentSocialProfile(agentID, profileID) ==
    /\ listed' \in SocialProfileReplies(agentID, profileID)
    /\ UNCHANGED <<agents, profiles, objects, clock, req, job, logs, arg, result, history, llm, users, login>>

\* ---------------------------------------------------------- specifications
\* The provisioning saga and its enrichment jobs: every operation that writes
\* to the store. Time stands still here: nothing below reads a timestamp.
Next ==
    \/ \E i \in Procs, p \in Payloads : CreateAgentBegin(i, p)
    \/ \E i \in Procs : GenerateAppearance(i)
    \/ \E i \in Procs : InsertAgent(i)
    \/ \E i \in Procs : LoadAgentForImage(i)
    \/ \E i \in Procs : GenerateImage(i)
    \/ \E i \in Procs : UploadImage(i)
    \/ \E i \in Procs : UpdateAgentImage(i)
    \/ \E i \in Procs : UpsertPlaceholder(i)
    \/ \E i \in Procs : CleanupAgent(i)
    \/ \E i \in Procs : RespondCreated(i)
    \/ \E i \in Procs : LaunchSocialProfileJob(i)
    \/ \E i \in Procs : JobLoadAgent(i)
    \/ \E i \in Procs : JobUsername(i)
    \/ \E i \in Procs : JobStatus(i)
    \/ \E i \in Procs : JobUpdateProfile(i)

Spec == Init /\ [][Next]_vars

\* The same with the handlers that read Agent documents running in between.
NextReaders ==
    \/ Next
    \/ ListAgents
    \/ \E id \in AgentIDs, prompt \in ChatPrompts : ChatWithAgent(id, prompt)

SpecReaders == Init /\ [][NextReaders]_vars

\* The same with get-social-profile running in between.
NextProfiles ==
    \/ Next
    \/ \E agentID \in {NoID} \cup AgentIDs, profileID \in ProfileIDs :
          GetAgentSocialProfile(agentID, profileID)

SpecProfiles == Init /\ [][NextProfiles]_vars

\* The deadlines under which CreateAgent issues an external call, beside the
\* request's own context, which has none: the timeouts of the contexts the
\* call is given. GenerateImage is given the request's context as it is.
CallDeadlines(call) ==
    CASE call = "llm" -> {llmRequestTimeout}
      [] call \in {"insert", "find", "update", "upsert", "delete"} -> {dbRequestTimeout}
      [] call = "upload" -> {imageRequestTimeout}
      [] call = "image" -> {}

HasDeadline(call) == CallDeadlines(call) # {}

\* Every call of the job runs under the job's context and its timeout.
JobCallDeadlines(call) ==
    {socialProfileJobTimeout}
        \cup (IF call = "llm" THEN {llmRequestTimeout} ELSE {dbRequestTimeout})

\* A call issued under a deadline returns, with its result or with the
\* deadline's error; the steps of a handler that wait for nothing are taken.
\* A call without a deadline returns only if the collaborator answers or the
\* client goes away.
RequestFairness ==
    \A i \in Procs :
        /\ WF_vars(HasDeadline("llm") /\ GenerateAppearance(i))
        /\ WF_vars(HasDeadline("insert") /\ InsertAgent(i))
        /\ WF_vars(HasDeadline("find") /\ LoadAgentForImage(i))
        /\ WF_vars(HasDeadline("image") /\ GenerateImage(i))
        /\ WF_vars(HasDeadline("upload") /\ UploadImage(i))
        /\ WF_vars(HasDeadline("update") /\ UpdateAgentImage(i))
        /\ WF_vars(HasDeadline("upsert") /\ UpsertPlaceholder(i))
        /\ WF_vars(HasDeadline("delete") /\ CleanupAgent(i))
        /\ WF_vars(RespondCreated(i))
        /\ WF_vars(LaunchSocialProfileJob(i))

\* The client of request i closes its connection, while the handler runs or
\* after it.
ClientDisconnect(i) ==
    /\ req[i].pc # "idle" /\ req[i].cancelled = ""
    /\ req' = [req EXCEPT ![i].cancelled = req[i].pc]
    /\ UNCHANGED <<agents, profiles, objects, clock, job, logs, listed, arg, result, history, llm, users, login>>

\* The saga and its jobs with clients that disconnect.
NextCancel ==
    \/ Next
    \/ \E i \in Procs : ClientDisconnect(i)

SpecCancel == Init /\ [][NextCancel]_vars

\* The goroutine of launchSocialProfileJob is scheduled, and each of its
\* calls returns: they run under the job's context, which times out.
JobFairness ==
    \A i \in Procs :
        /\ WF_vars(LaunchSocialProfileJob(i))
        /\ WF_vars(JobLoadAgent(i))
        /\ WF_vars(JobUsername(i))
        /\ WF_vars(JobStatus(i))
        /\ WF_vars(JobUpdateProfile(i))

SpecLive == Init /\ [][Next]_vars /\ JobFairness

\* ------------------------------------------------ the functions on their own
\* The saga with every call that has a deadline returning.
SpecDeadlines == Init /\ [][Next]_vars /\ RequestFairness /\ JobFairness

\* createInitialSocialProfile and generateAndPersistSocialProfile take any
\* agent id. Here they are called directly, for ids with and without an agent
\* document and a profile (agents written by the handler variants that create
\* no profile are in the same collection), while the clock advances. Each
\* caller makes one call of each function; pc "respond" and "cleanup" are then
\* the nil and the error return of createInitialSocialProfile.
UnitKeys == {1, 2}
SeededKeys == {1}
UnitNames == {<<"M", "i">>}
\* The caller that runs the enrichment function.
JobCaller == {1}

SeedAgent(id) ==
    [AgentDoc(id, [name |-> <<"M", "i">>, personality |-> <<"p">>, gender |-> <<"f">>,
                   system_prompt |-> buildSystemPrompt(<<"M", "i">>, <<"p">>, <<"f">>)],
              <<"t", "a", "l", "l">>, 0)
        EXCEPT !.base_url = httpURL(ObjectKey(ObjectName(id)))]

InitUnit ==
    /\ agents = {SeedAgent(id) : id \in SeededKeys}
    /\ profiles = {}
    /\ objects = {ObjectKey(ObjectName(id)) : id \in SeededKeys}
    /\ clock = 0
    /\ req = [i \in Procs |-> IdleReq]
    /\ job = [i \in Procs |-> IdleJob]
    /\ logs = {}
    /\ listed = NoReply
    /\ arg = Empty
    /\ result = NoResult
    /\ history = <<>>
    /\ llm = NoCalls
    /\ users = {}
    /\ login = [i \in Procs |-> IdleLogin]

\* time.Now() moves on.
Tick ==
    /\ clock < MaxClock
    /\ clock' = clock + 1
    /\ UNCHANGED <<agents, profiles, objects, req, job, logs, listed, arg, result, history, llm, users, login>>

\* A caller enters createInitialSocialProfile(ctx, id, name).
CallCreateInitialSocialProfile(i, id, name) ==
    /\ req[i].pc = "idle"
    /\ req' = [req EXCEPT ![i] = [IdleReq EXCEPT !.pc = "placeholder", !.agentID = id,
                                                  !.payload.name = name, !.now = clock]]
    /\ UNCHANGED <<agents, profiles, objects, clock, job, logs, listed, arg, result, history, llm, users, login>>

\* A caller runs generateAndPersistSocialProfile(ctx, id).
CallGenerateAndPersistSocialProfile(i, id) ==
    /\ job[i].pc = "none"
    /\ job' = [job EXCEPT ![i] = [IdleJob EXCEPT !.pc = "load", !.agentID = id,
                                                  !.ctx = "background"]]
    /\ UNCHANGED <<agents, profiles, objects, clock, req, logs, listed, arg, result, history, llm, users, login>>

NextUnit ==
    \/ Tick
    \/ \E i \in Procs, id \in UnitKeys, name \in UnitNames :
          CallCreateInitialSocialProfile(i, id, name)
    \/ \E i \in Procs : UpsertPlaceholder(i)
    \/ \E i \in JobCaller, id \in UnitKeys : CallGenerateAndPersistSocialProfile(i, id)
    \/ \E i \in Procs : JobLoadAgent(i)
    \/ \E i \in Procs : JobUsername(i)
    \/ \E i \in Procs : JobStatus(i)
    \/ \E i \in Procs : JobUpdateProfile(i)

SpecUnit == InitUnit /\ [][NextUnit]_vars

\* ------------------------------------------------- the text functions alone
\* sanitizeUsername, sanitizeStatus and generateSocialUsername are functions
\* of their arguments only. Here each is called on texts around the lengths
\* at which it truncates; sanitizeUsername and sanitizeStatus are called
\* again on what they returned.
MaxTailLen == 2
MaxApplications == 2
TextAlphabet == {"a", "B", "7", "_", ".", "@", " ", "\n"}

RECURSIVE Tails(_)
Tails(n) ==
    IF n = 0 THEN {<<>>}
    ELSE LET shorter == Tails(n - 1)
         IN  shorter \cup {Append(t, c) : t \in shorter, c \in TextAlphabet}

Pad(k) == [n \in 1..k |-> "a"]
PadLengths == {0, maxSocialUsernameLength - 1, maxStatusLength - 1}
TextInputs == {Pad(k) \o t : k \in PadLengths, t \in Tails(MaxTailLen)}
\* Agent names as CreateAgent stores them: trimmed and not empty.
NameInputs == {<<"M", "i">>, <<"!">>, Pad(maxSocialUsernameLength - hexSuffixLength),
               Pad(maxSocialUsernameLength)}

InitText ==
    /\ agents = {}
    /\ profiles = {}
    /\ objects = {}
    /\ clock = 0
    /\ req = [i \in Procs |-> IdleReq]
    /\ job = [i \in Procs |-> IdleJob]
    /\ logs = {}
    /\ listed = NoReply
    /\ arg \in TextInputs
    /\ result = NoResult
    /\ history = <<>>
    /\ llm = NoCalls
    /\ users = {}
    /\ login = [i \in Procs |-> IdleLogin]

LastText == IF result.outs = <<>> THEN arg ELSE result.outs[Len(result.outs)]

CallSanitizeUsername ==
    /\ result.fn \in {"", "sanitizeUsername"}
    /\ Len(result.outs) < MaxApplications
    /\ result' = [fn |-> "sanitizeUsername", name |-> <<>>,
                  outs |-> Append(result.outs, sanitizeUsername(LastText))]
    /\ UNCHANGED <<agents, profiles, objects, clock, req, job, logs, listed, arg, history, llm, users, login>>

CallSanitizeStatus ==
    /\ result.fn \in {"", "sanitizeStatus"}
    /\ Len(result.outs) < MaxApplications
    /\ result' = [fn |-> "sanitizeStatus", name |-> <<>>,
                  outs |-> Append(result.outs, sanitizeStatus(LastText))]
    /\ UNCHANGED <<agents, profiles, objects, clock, req, job, logs, listed, arg, history, llm, users, login>>

\* generateSocialUsername for an agent of the given name when the LLM has
\* answered with the text arg.
CallGenerateSocialUsername(name) ==
    /\ result = NoResult
    /\ result' = [fn |-> "generateSocialUsername", name |-> name,
                  outs |-> <<SocialUsername([name |-> name, id |-> NewObjectID(1)], arg)>>]
    /\ UNCHANGED <<agents, profiles, objects, clock, req, job, logs, listed, arg, history, llm, users, login>>

\* System prompts an Agent document can hold: CreateAgent stores a trimmed,
\* non-empty one; the field of a document written otherwise can be anything.
SystemPrompts == {Empty, <<" ">>, <<"s">>, <<" ", "s", "\n">>}

\* ChatWithAgent from the decoded prompt arg to the combined prompt, for an
\* Agent document with the given system prompt: an empty prompt is answered
\* 400 before anything is built.
CallBuildChatPrompt(systemPrompt) ==
    /\ result = NoResult
    /\ TrimSpace(arg) # Empty
    /\ result' = [fn |-> "buildChatPrompt", name |-> systemPrompt,
                  outs |-> <<buildChatPrompt(systemPrompt, TrimSpace(arg))>>]
    /\ UNCHANGED <<agents, profiles, objects, clock, req, job, logs, listed, arg, history, llm, users, login>>

NextText ==
    \/ CallSanitizeUsername
    \/ CallSanitizeStatus
    \/ \E name \in NameInputs : CallGenerateSocialUsername(name)
    \/ \E systemPrompt \in SystemPrompts : CallBuildChatPrompt(systemPrompt)

SpecText == InitText /\ [][NextText]_vars

\* ---------------------------------------------- the llmservice.Client alone
\* Callers of one Client, each making SendPrompt calls one after another and
\* concurrently with the others, and ResetHistory calls. What a call transmits
\* is that of the client that builds its request itself.
MaxSends == 2
MaxResets == 1

ClientRoles == {"", "system"}
ClientPrompts == {<<" ">>, <<"h", "i">>}
ClientAnswers == {<<" ">>, <<"y", "o">>}

\* SendPrompt up to the sending of the request: sanitizeMessage, whose error
\* ends the call, then appendAndSnapshot under the lock and the request built
\* from the snapshot.
SendPromptBegin(i, role, prompt) ==
    /\ llm.call[i].pc \in {"idle", "returned"}
    /\ llm.call[i].n < MaxSends
    /\ LET userMsg == sanitizeMessage(role, prompt)
           begun == [llm.call[i] EXCEPT !.n = @ + 1, !.prompt = prompt,
                                        !.epoch = llm.resets, !.ret = Empty]
       IN  IF userMsg.content = Empty
           THEN /\ llm' = [llm EXCEPT !.call[i] =
                              [begun EXCEPT !.pc = "returned", !.request = <<>>,
                                            !.err = "prompt is required"]]
                /\ UNCHANGED history
           ELSE LET snapshot == appendAndSnapshot(history, userMsg)
                IN  /\ history' = snapshot
                    /\ llm' = [llm EXCEPT
                          !.call[i] = [begun EXCEPT !.pc = "sending", !.err = "",
                                                    !.request = messagesToContents(snapshot)],
                          !.turns = Append(@, [caller |-> i, n |-> begun.n,
                                               epoch |-> llm.resets])]
    /\ UNCHANGED <<agents, profiles, objects, clock, req, job, logs, listed, arg, result, users, login>>

\* SendPrompt returning an error after its request was built: the transport
\* failed, the status was not OK, the body did not decode, or it had no
\* candidates. The history is not touched.
SendPromptError(i, err) ==
    /\ llm.call[i].pc = "sending"
    /\ llm' = [llm EXCEPT !.call[i].pc = "returned", !.call[i].err = err]
    /\ UNCHANGED <<agents, profiles, objects, clock, req, job, logs, listed, arg, result, history, users, login>>

\* SendPrompt after the response has arrived: the first part that is not blank
\* is appended as the assistant message and returned; without one the call
\* returns the error of the empty response.
SendPromptAnswer(i, text) ==
    /\ llm.call[i].pc = "sending"
    /\ IF TrimSpace(text) = Empty
       THEN /\ llm' = [llm EXCEPT !.call[i].pc = "returned",
                                  !.call[i].err = "empty response"]
            /\ UNCHANGED history
       ELSE /\ history' = appendAssistantMessage(history, text)
            /\ llm' = [llm EXCEPT
                  !.call[i].pc = "returned", !.call[i].ret = TrimSpace(text),
                  !.turns = Append(@, [caller |-> i, n |-> llm.call[i].n,
                                       epoch |-> llm.call[i].epoch])]
    /\ UNCHANGED <<agents, profiles, objects, clock, req, job, logs, listed, arg, result, users, login>>

\* ResetHistory: the history is set to nil under the lock. The client that
\* wraps a chat session then replaces the session outside the lock, which
\* changes nothing of the history.
ResetHistory ==
    /\ llm.resets < MaxResets
    /\ history' = <<>>
    /\ llm' = [llm EXCEPT !.turns = <<>>, !.resets = @ + 1]
    /\ UNCHANGED <<agents, profiles, objects, clock, req, job, logs, listed, arg, result, users, login>>

NextClient ==
    \/ \E i \in Procs, role \in ClientRoles, prompt \in ClientPrompts :
          SendPromptBegin(i, role, prompt)
    \/ \E i \in Procs,
          err \in {"send request", "google api error", "decode response", "no candidates"} :
          SendPromptError(i, err)
    \/ \E i \in Procs, text \in ClientAnswers : SendPromptAnswer(i, text)
    \/ ResetHistory

SpecClient == Init /\ [][NextClient]_vars

\* ------------------------------------------------------- the users' Login
\* Login requests, each caller issuing them one after another and concurrently
\* with the other callers. The users collection has the _id index only: the
\* repository creates no index on uid, so the store, for an upsert, first
\* evaluates the filter and then updates the document it matched or inserts
\* one, and another upsert can run between the two.
MaxLogins == 2

NoUID == ""

\* auth.VerifyIDToken on the trimmed token: the uid, or NoUID on an error.
VerifyIDToken(token) ==
    IF token = <<"t", "1">> THEN "u1"
    ELSE IF token = <<"t", "2">> THEN "u2"
    ELSE NoUID

\* auth.GetUser: the user record of the identity provider.
GetUser(uid) ==
    [UID |-> uid, Email |-> <<" ", "e", "@", "x">>, DisplayName |-> <<"n", " ">>,
     PhotoURL |-> Empty]

UsersOf(coll, uid) == {d \in coll : d.uid = uid}

\* What UpdateOne writes when the filter matched a document: $set.
SetUser(d, userRecord, now) ==
    [d EXCEPT !.email = TrimSpace(userRecord.Email),
              !.display_name = TrimSpace(userRecord.DisplayName),
              !.photo_url = TrimSpace(userRecord.PhotoURL),
              !.updated_at = now, !.last_login_at = now]

\* What UpdateOne with upsert inserts when the filter matched none: the
\* filter's uid, $set and $setOnInsert, under an _id of the store.
InsertedUser(coll, userRecord, now) ==
    [id |-> Cardinality(coll) + 1, uid |-> userRecord.UID,
     email |-> TrimSpace(userRecord.Email),
     display_name |-> TrimSpace(userRecord.DisplayName),
     photo_url |-> TrimSpace(userRecord.PhotoURL),
     created_at |-> now, updated_at |-> now, last_login_at |-> now]

\* The request ends with the response, which the caller has then received.
LoginRespond(i, response) ==
    [login EXCEPT ![i].pc = "done", ![i].response = response,
                  ![i].reports = Append(@, [uid |-> login[i].uid, status |-> response.status,
                                            is_new |-> response.status = StatusOK
                                                        /\ response.body.is_new])]

\* Login up to the upsert: the token trimmed and verified, the user record
\* fetched, the time read.
LoginBegin(i, token) ==
    /\ login[i].pc \in {"idle", "done"}
    /\ login[i].n < MaxLogins
    /\ LET begun == [login EXCEPT ![i].n = @ + 1, ![i].uid = NoUID, ![i].upserted = 0,
                                  ![i].matched = FALSE, ![i].response = NoResponse]
           uid == VerifyIDToken(TrimSpace(token))
           answer(response) ==
               [begun EXCEPT ![i].pc = "done", ![i].response = response,
                             ![i].reports = Append(@, [uid |-> NoUID, status |-> response.status,
                                                       is_new |-> FALSE])]
       IN  IF TrimSpace(token) = Empty
           THEN login' = answer(respondJSONError(StatusBadRequest, "token is required"))
           ELSE IF uid = NoUID
           THEN login' = answer(respondJSONError(StatusUnauthorized, "invalid firebase token"))
           ELSE \/ login' = answer(respondJSONError(StatusBadGateway,
                                                    "failed to load firebase user"))
                \/ login' = [begun EXCEPT ![i].pc = "upsert", ![i].uid = uid,
                                          ![i].now = clock]
    /\ UNCHANGED <<agents, profiles, objects, clock, req, job, logs, listed, arg, result, history, llm, users>>

\* UpdateOne with upsert, first half: the call fails, or the store evaluates
\* the filter {uid}.
LoginUpsertMatch(i) ==
    /\ login[i].pc = "upsert"
    /\ \/ login' = LoginRespond(i, respondJSONError(StatusInternalServerError,
                                                   "failed to persist user"))
       \/ login' = [login EXCEPT ![i].pc = "write",
                                 ![i].matched = UsersOf(users, login[i].uid) # {}]
    /\ UNCHANGED <<agents, profiles, objects, clock, req, job, logs, listed, arg, result, history, llm, users>>

\* UpdateOne with upsert, second half: the document matched is updated, or,
\* none having matched, one is inserted and counted in UpsertedCount.
LoginUpsertWrite(i) ==
    /\ login[i].pc = "write"
    /\ LET userRecord == GetUser(login[i].uid)
       IN  IF login[i].matched
           THEN /\ \E d \in UsersOf(users, login[i].uid) :
                      users' = (users \ {d}) \cup {SetUser(d, userRecord, login[i].now)}
                /\ login' = [login EXCEPT ![i].pc = "find", ![i].upserted = 0]
           ELSE /\ users' = users \cup {InsertedUser(users, userRecord, login[i].now)}
                /\ login' = [login EXCEPT ![i].pc = "find", ![i].upserted = 1]
    /\ UNCHANGED <<agents, profiles, objects, clock, req, job, logs, listed, arg, result, history, llm>>

\* FindOne by the filter and the response with is_new.
LoginFind(i) ==
    /\ login[i].pc = "find"
    /\ \/ login' = LoginRespond(i, respondJSONError(StatusInternalServerError,
                                                   "failed to load user"))
       \/ \E stored \in UsersOf(users, login[i].uid) :
             login' = LoginRespond(i, [status |-> StatusOK, error |-> "",
                                       body |-> [user |-> stored,
                                                 is_new |-> login[i].upserted > 0]])
    /\ UNCHANGED <<agents, profiles, objects, clock, req, job, logs, listed, arg, result, history, llm, users>>

NextLogin ==
    \/ Tick
    \/ \E i \in Procs,
          token \in {<<" ">>, <<"b", "a", "d">>, <<" ", "t", "1">>, <<"t", "2">>} :
          LoginBegin(i, token)
    \/ \E i \in Procs : LoginUpsertMatch(i)
    \/ \E i \in Procs : LoginUpsertWrite(i)
    \/ \E i \in Procs : LoginFind(i)

SpecLogin == Init /\ [][NextLogin]_vars

\* ------------------------------------------------------------- properties
Succeeded(i) == req[i].response.status = StatusCreated
Returned(i) == req[i].pc = "done"
CleanupLogged(i) == \E l \in logs : l.kind = "cleanup" /\ l.id = req[i].agentID
IDsOf(coll) == {d.id : d \in coll}

\* C1 (as stated): whenever create-agent has returned after its image
\* generation or its upload failed, no Agent document with its key is left,
\* whatever the other store operations did.
C1_CompensationAlwaysRemovesAgent ==
    \A i \in Procs :
        (Returned(i) /\ req[i].failed \in {"image", "upload"})
            => Matching(agents, req[i].agentID) = {}

\* C1 (amended): after a failed image generation or upload create-agent has
\* issued the compensating delete; its Agent document is gone at the return
\* exactly when that delete succeeded, and is still there, with the failure
\* logged, when the delete failed.
C1_CompensationRemovesAgentUnlessDeleteFails ==
    \A i \in Procs :
        (Returned(i) /\ req[i].failed \in {"image", "upload"})
            => /\ req[i].calls[Len(req[i].calls)] = "delete"
               /\ (Matching(agents, req[i].agentID) = {}) <=> ~CleanupLogged(i)

C1_Witness ==
    \E i \in Procs :
        /\ Returned(i) /\ req[i].failed = "upload"
        /\ req[i].response.status = StatusBadGateway
        /\ ~CleanupLogged(i)
        /\ Matching(agents, req[i].agentID) = {}

\* C2: once create-agent has answered 201, and in every later state, the
\* store holds exactly one Agent document with the request's key and exactly
\* one SocialProfile document with that agent key.
C2_OneAgentOneProfileAfterSuccess ==
    \A i \in Procs :
        Succeeded(i)
            => /\ Cardinality(Matching(agents, req[i].agentID)) = 1
               /\ Cardinality(ProfilesOf(profiles, req[i].agentID)) = 1
               /\ req[i].agentID = NewObjectID(i)

C2_Witness ==
    \E i \in Procs :
        /\ Succeeded(i) /\ Returned(i)
        /\ job[i].pc = "done" /\ job[i].err = ""
        /\ \E d \in ProfilesOf(profiles, req[i].agentID) : d.status # Empty

\* C3: create-agent answers 502 "failed to generate appearance" exactly when
\* its only collaborator call was the failed text generation: no store write,
\* image generation or upload was issued, and no Agent document, profile or
\* portrait object of the request exists.
C3_AppearanceFailureLeavesNothing ==
    \A i \in Procs :
        /\ (Returned(i) /\ req[i].calls = <<"llm">>)
              <=> req[i].response = respondJSONError(StatusBadGateway,
                                                     "failed to generate appearance")
        /\ req[i].response.error = "failed to generate appearance"
              => /\ req[i].agentID = NoID
                 /\ Matching(agents, NewObjectID(i)) = {}
                 /\ ProfilesOf(profiles, NewObjectID(i)) = {}
                 /\ ObjectKey(ObjectName(NewObjectID(i))) \notin objects

C3_Witness ==
    \E i, j \in Procs :
        /\ req[i].response.error = "failed to generate appearance"
        /\ req[i].response.status = StatusBadGateway
        /\ Succeeded(j)

\* C4: an enrichment job exists only for a request that has answered 201,
\* it works on that request's key, and from its launch up to and including
\* its profile update the placeholder of that key exists: the update never
\* finds the placeholder missing, however the requests interleave.
C4_EnrichmentAfterCommitAndPlaceholder ==
    \A i \in Procs :
        job[i].pc # "none"
            => /\ Succeeded(i)
               /\ job[i].agentID = req[i].agentID
               /\ ProfilesOf(profiles, job[i].agentID) # {}
               /\ job[i].err # "social profile placeholder missing"

C4_Witness ==
    \E i, j \in Procs :
        /\ job[i].pc = "update"
        /\ req[j].pc \in {"load", "image", "upload", "update", "placeholder", "cleanup"}

\* C8: a step removes an Agent document only as the compensating delete of
\* the request that inserted it: every other document of the collection,
\* those of concurrent requests included, is left as it was.
C8_CleanupRemovesOnlyOwnAgent ==
    [][\A id \in IDsOf(agents) \ IDsOf(agents') :
          \E i \in Procs :
             /\ req[i].pc = "cleanup" /\ req'[i].pc = "done"
             /\ req[i].agentID = id
             /\ \A d \in agents : d.id # id => d \in agents']_vars

C8_Witness ==
    \E i, j \in Procs :
        /\ Returned(i) /\ "delete" \in {req[i].calls[n] : n \in 1..Len(req[i].calls)}
        /\ "insert" \in {req[i].calls[n] : n \in 1..Len(req[i].calls)}
        /\ Matching(agents, req[i].agentID) = {}
        /\ req[j].agentID # NoID /\ Matching(agents, req[j].agentID) # {}

\* C9: once a request has answered 201 no step removes or changes its Agent
\* document and the request never enters compensation, whatever the
\* enrichment job and the other requests do.
C9_NoCompensationAfterCommit ==
    [][\A i \in Procs :
          Succeeded(i)
             => /\ Matching(agents, req[i].agentID) # {}
                /\ Matching(agents', req[i].agentID) = Matching(agents, req[i].agentID)
                /\ req'[i].pc \in {"launch", "done"}
                /\ req'[i].response = req[i].response]_vars

C9_Witness ==
    \E i \in Procs :
        /\ Succeeded(i) /\ Returned(i)
        /\ job[i].pc = "done" /\ job[i].err # ""
        /\ Matching(agents, req[i].agentID) # {}

\* C10: when the compensating delete fails, which is logged, create-agent
\* still answers with the error of the step that failed: 500 "failed to
\* create social profile" for the placeholder, 502 "failed to generate base
\* appearance" for the portrait steps.
C10_CleanupFailureKeepsOriginalError ==
    \A i \in Procs :
        (Returned(i) /\ CleanupLogged(i))
            => req[i].response =
                  IF req[i].failed = "placeholder"
                  THEN [status |-> StatusInternalServerError,
                        error |-> "failed to create social profile", body |-> <<>>]
                  ELSE [status |-> StatusBadGateway,
                        error |-> "failed to generate base appearance", body |-> <<>>]

C10_Witness ==
    \E i \in Procs :
        /\ Returned(i) /\ CleanupLogged(i)
        /\ req[i].failed = "placeholder"
        /\ Matching(agents, req[i].agentID) # {}

\* The failures generateAndPersistSocialProfile ends with before its update.
EarlierJobErrors ==
    {"load agent for social profile", "social username prompt error",
     "social username prompt returned empty response", "social status prompt error",
     "social status prompt returned empty response"}
JobRunning(i) == job[i].pc \in {"load", "username", "status", "update"}

ReadAgents ==
    IF listed = NoReply THEN {}
    ELSE IF listed.handler = "list" THEN listed.agents
    ELSE IF listed.handler = "chat" /\ listed.agent # <<>> THEN {listed.agent}
    ELSE {}

\* C7: no reader ever reads an Agent document whose portrait reference is
\* empty. The handlers do not keep this: InsertOne stores the document with
\* the reference empty and ListAgents and ChatWithAgent read without a filter.
C7_ReadersNeverSeeEmptyPortrait ==
    \A a \in ReadAgents : a.base_url # Empty

C7_EmptyPortraitRead ==
    /\ listed # NoReply /\ listed.handler = "list" /\ listed.status = StatusOK
    /\ \E a \in listed.agents :
          /\ a.base_url = Empty
          /\ \E i \in Procs : req[i].agentID = a.id /\ req[i].pc = "image"

CallsOf(i) == {req[i].calls[n] : n \in 1..Len(req[i].calls)}

\* C11: when the store update that writes the portrait URI fails, create-agent
\* removes the Agent document by compensation and answers with the store
\* failure status (500), not with the 502 of a failed image generation or
\* upload. The handler does not keep this: every error of
\* generateAndPersistBaseAppearance is answered 502 "failed to generate base
\* appearance".
C11_PortraitUpdateFailureIsPersistenceError ==
    \A i \in Procs :
        (Returned(i) /\ req[i].failed = "update")
            => /\ "delete" \in CallsOf(i)
               /\ req[i].response.status = StatusInternalServerError

C11_PortraitUpdateFailureAnswered ==
    \E i \in Procs :
        /\ Returned(i) /\ req[i].failed = "update"
        /\ req[i].calls = <<"llm", "insert", "find", "image", "upload", "update", "delete">>
        /\ Matching(agents, req[i].agentID) = {}
        /\ req[i].response = respondJSONError(StatusBadGateway,
                                              "failed to generate base appearance")

\* The fields of the request body that are empty once trimmed.
InvalidBody(b) ==
    TrimSpace(b.name) = Empty \/ TrimSpace(b.personality) = Empty \/ TrimSpace(b.gender) = Empty

\* C12: a create-agent request whose name, personality or gender is empty
\* after trimming is answered 400 without any collaborator call or store
\* write; every other request passes validation with its fields trimmed.
C12_ValidationBeforeAnyCall ==
    \A i \in Procs :
        req[i].pc # "idle"
            => IF InvalidBody(req[i].body)
               THEN /\ Returned(i)
                    /\ req[i].response = respondJSONError(StatusBadRequest,
                           "name, personality, and gender are required")
                    /\ req[i].calls = <<>>
                    /\ req[i].agentID = NoID /\ job[i].pc = "none"
                    /\ Matching(agents, NewObjectID(i)) = {}
                    /\ ProfilesOf(profiles, NewObjectID(i)) = {}
               ELSE /\ req[i].response.status # StatusBadRequest
                    /\ req[i].payload.name = TrimSpace(req[i].body.name)
                    /\ req[i].payload.personality = TrimSpace(req[i].body.personality)
                    /\ req[i].payload.gender = TrimSpace(req[i].body.gender)
                    /\ Returned(i) => req[i].calls # <<>>

C12_Witness ==
    \E i, j \in Procs :
        /\ req[i].response.status = StatusBadRequest
        /\ TrimSpace(req[i].body.name) # Empty /\ TrimSpace(req[i].body.gender) = Empty
        /\ agents # {}
        /\ Succeeded(j)

\* C13: every Agent document with a non-empty portrait reference refers to
\* an object that is in the object storage.
C13_PortraitReferenceHasObject ==
    \A d \in agents :
        d.base_url # Empty => \E key \in objects : httpURL(key) = d.base_url

C13_Witness ==
    /\ \E d \in agents : d.base_url # Empty
    /\ \E i \in Procs : /\ Returned(i) /\ req[i].failed = "upload"
                        /\ ObjectKey(ObjectName(req[i].agentID)) \notin objects

CharsOf(s) == {s[n] : n \in 1..Len(s)}
UsernameChars == LowerLetters \cup Digits \cup {"_", "."}

\* C14: sanitizeUsername applied to its own result returns that result. The
\* function does not keep this: it trims '_' and '.' before it cuts the text
\* at 20 runes, so the cut can end in a character the next call trims.
C14_SanitizeUsernameIdempotent ==
    (result.fn = "sanitizeUsername" /\ Len(result.outs) >= 2)
        => \A n \in 2..Len(result.outs) : result.outs[n] = result.outs[n - 1]

C14_SecondCallDiffers ==
    /\ result.fn = "sanitizeUsername" /\ Len(result.outs) >= 2
    /\ arg = Pad(maxSocialUsernameLength - 1) \o <<"_", "a">>
    /\ result.outs[1] = Pad(maxSocialUsernameLength - 1) \o <<"_">>
    /\ result.outs[2] = Pad(maxSocialUsernameLength - 1)

\* C15: the result of sanitizeUsername is empty, or has at most 20
\* characters, all of them in [a-z0-9_.], the first and the last neither '_'
\* nor '.'. The function does not keep the last part, for the same reason.
C15_SanitizedUsernameShape ==
    (result.fn = "sanitizeUsername" /\ result.outs # <<>>)
        => LET u == result.outs[1]
           IN  \/ u = Empty
               \/ /\ Len(u) <= maxSocialUsernameLength
                  /\ CharsOf(u) \subseteq UsernameChars
                  /\ u[1] \notin {"_", "."}
                  /\ u[Len(u)] \notin {"_", "."}

C15_EndsWithSeparator ==
    /\ result.fn = "sanitizeUsername" /\ Len(result.outs) = 1
    /\ Len(result.outs[1]) = maxSocialUsernameLength
    /\ CharsOf(result.outs[1]) \subseteq UsernameChars
    /\ result.outs[1][1] \notin {"_", "."}
    /\ result.outs[1][maxSocialUsernameLength] = "."

\* C17: the result of sanitizeStatus has at most 140 characters and no
\* newline, also when the function is applied to its own result.
C17_SanitizedStatusShape ==
    result.fn = "sanitizeStatus"
        => \A n \in 1..Len(result.outs) :
              /\ Len(result.outs[n]) <= maxStatusLength
              /\ "\n" \notin CharsOf(result.outs[n])

C17_Witness ==
    /\ result.fn = "sanitizeStatus" /\ Len(result.outs) = 1
    /\ Len(arg) > maxStatusLength /\ "\n" \in CharsOf(arg)
    /\ Len(result.outs[1]) = maxStatusLength - 1

\* The first four characters of the hex form of the agent key.
HexSuffix == Truncate(Hex(NewObjectID(1)), hexSuffixLength)

\* C18: when the sanitized model text is empty or equals the sanitized agent
\* name, generateSocialUsername returns sanitize(name), '_' and the first four
\* hex characters of the key, or "buddy_" and those four characters when that
\* text is empty. The function does not keep this: the candidate is cut at 20
\* runes, and an agent name that sanitizes to nothing gets the base "agent".
C18_FallbackIsNameAndKeySuffix ==
    result.fn = "generateSocialUsername"
        => LET handle == sanitizeUsername(result.name)
               candidate == sanitizeUsername(arg)
               plain == handle \o <<"_">> \o HexSuffix
           IN  (candidate = Empty \/ candidate = handle)
                  => result.outs[1] =
                        IF plain = Empty
                        THEN <<"b", "u", "d", "d", "y", "_">> \o HexSuffix
                        ELSE plain

C18_FallbackLosesSuffix ==
    /\ result.fn = "generateSocialUsername"
    /\ result.name = Pad(maxSocialUsernameLength)
    /\ sanitizeUsername(arg) = Empty
    /\ result.outs[1] = Pad(maxSocialUsernameLength)

\* C19: the username generateSocialUsername returns, which the enrichment
\* writes, differs from the sanitized agent name. The function does not keep
\* this for a name of 20 or more username characters: the fallback is cut
\* back to the name itself.
C19_EnrichedUsernameDiffersFromName ==
    (result.fn = "generateSocialUsername" /\ result.outs[1] # Empty)
        => result.outs[1] # sanitizeUsername(result.name)

C19_NameEchoed ==
    /\ result.fn = "generateSocialUsername"
    /\ result.name = Pad(maxSocialUsernameLength)
    /\ sanitizeUsername(arg) = sanitizeUsername(result.name)
    /\ result.outs[1] = sanitizeUsername(result.name)

\* C16: the username of every stored SocialProfile has at most 20
\* characters, all of them lowercase letters, digits, '_' or '.'. The handler
\* does not keep this: createInitialSocialProfile stores the trimmed agent
\* name as it is, without sanitizeUsername.
C16_StoredUsernamesAreSanitized ==
    \A d \in profiles :
        /\ Len(d.username) <= maxSocialUsernameLength
        /\ CharsOf(d.username) \subseteq UsernameChars

C16_PlaceholderHoldsRawName ==
    \E i \in Procs :
        /\ Succeeded(i)
        /\ req[i].body.name = <<"M", "i">>
        /\ \E d \in ProfilesOf(profiles, req[i].agentID) :
              d.username = <<"M", "i">> /\ d.status = Empty

\* The profile of request i holds what a run of the enrichment writes: a
\* username generateSocialUsername returns for the stored agent and a
\* sanitized, non-empty status of at most 140 characters; and
\* get-social-profile for the agent key answers with that document.
Enriched(i) ==
    \E d \in ProfilesOf(profiles, req[i].agentID) :
        /\ d.status # Empty /\ Len(d.status) <= maxStatusLength
        /\ d.status \in {sanitizeStatus(t) : t \in StatusTexts}
        /\ \E a \in Matching(agents, req[i].agentID) :
              /\ d.username \in {SocialUsername(a, t) : t \in UsernameTexts}
              /\ d.profile_url = a.base_url
        /\ profileReply(StatusOK, "", d) \in SocialProfileReplies(req[i].agentID, NoProfileID)
        /\ \A r \in SocialProfileReplies(req[i].agentID, NoProfileID) :
              r.status = StatusOK => r.profile = d

\* C20: after create-agent has answered 201 its enrichment job, fairly
\* scheduled, comes to an end; when none of its steps failed, the profile of
\* the agent then holds the enriched username and a non-empty status of at
\* most 140 characters, and get-social-profile answers with them.
C20_EnrichmentEventuallyVisible ==
    \A i \in Procs :
        Succeeded(i) ~> (job[i].pc = "done" /\ (job[i].err = "" => Enriched(i)))

C20_Witness ==
    \E i \in Procs :
        /\ Succeeded(i) /\ job[i].pc = "done" /\ job[i].err = ""
        /\ Enriched(i)
        /\ \E d \in ProfilesOf(profiles, req[i].agentID) : d.username = <<"m", "i", "_", "6", "9", "0", "7">>

\* The position of the enrichment job in generateAndPersistSocialProfile.
JobRank(pc) ==
    CASE pc = "none" -> 0 [] pc = "load" -> 1 [] pc = "username" -> 2
      [] pc = "status" -> 3 [] pc = "update" -> 4 [] pc = "done" -> 5

JobLogged(i) == {l \in logs : l.kind = "job" /\ l.id = job[i].agentID}

PlaceholderForm(i) ==
    \A d \in ProfilesOf(profiles, req[i].agentID) :
        /\ d.username = InitialUsername(req[i].payload.name, req[i].agentID)
        /\ d.status = Empty /\ d.profile_url = Empty
        /\ d.updated_at = d.created_at

C24_EachCallAtMostOnce ==
    [][\A i \in Procs :
          /\ req'[i].calls # req[i].calls =>
                \E c \in {"llm", "insert", "find", "image", "upload", "update",
                          "upsert", "delete", "go"} :
                   /\ req'[i].calls = Append(req[i].calls, c)
                   /\ c \notin CallsOf(i)
          /\ job'[i] # job[i] => JobRank(job'[i].pc) = JobRank(job[i].pc) + 1
                                  \/ job'[i].pc = "done"
          /\ (job[i].pc = "none" /\ job'[i].pc # "none") =>
                /\ "go" \notin CallsOf(i) /\ "go" \in CallsOf(i)'
                /\ Succeeded(i) /\ Returned(i)'
          /\ job[i].pc = "done" => job'[i] = job[i]]_vars

C24_Witness ==
    \E i, j \in Procs :
        /\ Returned(i) /\ req[i].failed = "upload"
        /\ req[i].calls = <<"llm", "insert", "find", "image", "upload", "delete">>
        /\ Returned(j) /\ job[j].pc = "done" /\ job[j].err = "social status prompt error"
        /\ req[j].calls = <<"llm", "insert", "find", "image", "upload", "update", "upsert", "go">>

\* C25: a createInitialSocialProfile call that succeeds for a key that has a
\* profile, enriched or not, changes that one document in updated_at only and
\* no other document; for a key without a profile it adds one document with
\* the key, the initial username, empty status and image reference, and both
\* timestamps.
C25_PlaceholderUpsertOnlyRefreshesExisting ==
    [][\A i \in Procs :
          (req[i].pc = "placeholder" /\ req'[i].pc = "respond") =>
             LET existing == ProfilesOf(profiles, req[i].agentID)
             IN  IF existing # {}
                 THEN \E d \in existing :
                         profiles' = (profiles \ {d})
                                        \cup {[d EXCEPT !.updated_at = req[i].now]}
                 ELSE \E d \in profiles' :
                         /\ profiles' = profiles \cup {d} /\ d \notin profiles
                         /\ d.agent_id = req[i].agentID
                         /\ d.username = InitialUsername(req[i].payload.name, req[i].agentID)
                         /\ d.status = Empty /\ d.profile_url = Empty
                         /\ d.created_at = req[i].now /\ d.updated_at = req[i].now]_vars

\* An enriched profile whose updated_at a later placeholder upsert has moved.
C25_Witness ==
    \E i \in Procs : \E d \in ProfilesOf(profiles, req[i].agentID) :
        /\ req[i].pc = "respond" /\ d.updated_at = req[i].now
        /\ d.created_at < d.updated_at
        /\ d.status # Empty /\ d.profile_url # Empty
        /\ d.username # InitialUsername(req[i].payload.name, req[i].agentID)
        /\ \E j \in JobCaller : job[j].pc = "done" /\ job[j].err = ""

\* C26 (as stated): whenever an agent has a SocialProfile document, its image
\* reference equals the portrait reference of the Agent document.
C26_ProfileImageAlwaysMirrorsPortrait ==
    \A d \in profiles : \A a \in Matching(agents, d.agent_id) :
        d.profile_url = a.base_url

\* C26 (amended): the image reference of a SocialProfile document is empty as
\* long as the document is the placeholder (status empty) and equals the
\* portrait reference of the Agent document, which is not empty, once the
\* enrichment has written it.
C26_ProfileImageMirrorsPortraitOnceEnriched ==
    \A d \in profiles :
        /\ Matching(agents, d.agent_id) # {}
        /\ \A a \in Matching(agents, d.agent_id) :
              /\ a.base_url # Empty
              /\ d.status = Empty => d.profile_url = Empty
              /\ d.status # Empty => d.profile_url = a.base_url
        /\ \A i \in Procs :
              (job[i].agentID = d.agent_id /\ job[i].pc = "done" /\ job[i].err = "")
                  => d.status # Empty

C26_Witness ==
    /\ \E d \in profiles : \E a \in Matching(agents, d.agent_id) :
          d.status # Empty /\ d.profile_url = a.base_url /\ a.base_url # Empty
    /\ \E d \in profiles : \E a \in Matching(agents, d.agent_id) :
          d.status = Empty /\ d.profile_url = Empty /\ a.base_url # Empty

\* C27: a chat request with a prompt, for a key that has no Agent document,
\* is answered 404 "agent not found", or 500 "failed to load agent" when the
\* store call itself failed, and in both cases no prompt is sent to the LLM;
\* for a key that has an Agent document the answer is never 404, and a store
\* failure is answered 500 "failed to load agent", again without an LLM call.
C27_MissingAgentIsNotFoundWithoutLLMCall ==
    [][\A id \in AgentIDs, prompt \in ChatPrompts :
          (TrimSpace(prompt) # Empty /\ ChatWithAgent(id, prompt)) =>
             /\ listed'.status = StatusNotFound <=> listed'.error = "agent not found"
             /\ listed'.status = StatusInternalServerError
                   <=> listed'.error = "failed to load agent"
             /\ listed'.status \in {StatusNotFound, StatusInternalServerError} =>
                   /\ listed'.sent = <<>> /\ listed'.response = <<>>
                   /\ history' = history
             /\ IF Matching(agents, id) = {}
                THEN listed'.status \in {StatusNotFound, StatusInternalServerError}
                ELSE listed'.status # StatusNotFound]_vars

\* A chat for a key without a document, answered 404 while other agents are
\* stored and the LLM has been called for them.
C27_Witness ==
    /\ listed = chatReply(StatusNotFound, "agent not found", <<>>, <<>>, <<>>)
    /\ agents # {} /\ history # <<>>
    /\ ChatMessages(history) = {}

\* C28: a chat request changes no Agent document, no SocialProfile document
\* and nothing the service keeps between requests, the history of the LLM
\* client included. The handler does not keep this: SendPrompt appends the
\* combined prompt to the history of the one client all requests share, and
\* the answer as well when there is one.
C28_ChatLeavesRetainedStateUnchanged ==
    [][\A id \in AgentIDs, prompt \in ChatPrompts :
          ChatWithAgent(id, prompt) =>
             /\ agents' = agents /\ profiles' = profiles /\ objects' = objects
             /\ history' = history]_vars

\* A failed chat has left its prompt in the history.
C28_ChatRetainedInHistory ==
    /\ listed # NoReply /\ listed.handler = "chat" /\ listed.status = StatusBadGateway
    /\ history # <<>>
    /\ history[Len(history)] = [role |-> "user", content |-> listed.sent]

\* The text s without the white space at its two ends.
Reverse(s) == [k \in 1..Len(s) |-> s[Len(s) + 1 - k]]
FirstNonSpace(s) ==
    IF \A k \in 1..Len(s) : IsSpace(s[k]) THEN 0
    ELSE CHOOSE k \in 1..Len(s) : ~IsSpace(s[k]) /\ \A j \in 1..(k - 1) : IsSpace(s[j])
Stripped(s) ==
    IF FirstNonSpace(s) = 0 THEN Empty
    ELSE SubSeq(s, FirstNonSpace(s), Len(s) + 1 - FirstNonSpace(Reverse(s)))

KeyMatches(agentID, profileID) ==
    {d \in profiles : \/ agentID # NoID /\ d.agent_id = agentID
                      \/ profileID # NoProfileID /\ d.pid = profileID}

\* C30 (as stated): get-social-profile with a key is answered "not ready"
\* exactly when no SocialProfile document matches a supplied key, and with the
\* profile of the agent whenever create-agent has answered 201 for the agent
\* key.
C30_NotReadyExactlyWithoutMatch ==
    [][\A agentID \in {NoID} \cup AgentIDs, profileID \in ProfileIDs :
          (GetAgentSocialProfile(agentID, profileID)
              /\ (agentID # NoID \/ profileID # NoProfileID)) =>
             /\ listed'.status = StatusNotFound <=> KeyMatches(agentID, profileID) = {}
             /\ (\E i \in Procs : Succeeded(i) /\ req[i].agentID = agentID) =>
                   /\ listed'.status = StatusOK
                   /\ listed'.profile.agent_id = agentID]_vars

\* C30 (amended): get-social-profile answers 404 "social profile not ready" only when no
\* SocialProfile document matches a supplied key, and, a store failure (500)
\* aside, always then; when a document matches, the answer is that document
\* (the one of the agent key when that key matches) or the 500 of a store
\* failure. Hence once create-agent has answered 201 for a key, no later
\* get-social-profile for that agent key is answered "not ready", and every
\* answer that is not a store failure carries the profile of that agent.
C30_NotReadyOnlyWithoutMatch ==
    [][\A agentID \in {NoID} \cup AgentIDs, profileID \in ProfileIDs :
          GetAgentSocialProfile(agentID, profileID) =>
             LET matches == KeyMatches(agentID, profileID)
                 supplied == agentID # NoID \/ profileID # NoProfileID
             IN  /\ listed'.status = StatusNotFound => supplied /\ matches = {}
                 /\ (supplied /\ matches = {}) =>
                       listed'.status \in {StatusNotFound, StatusInternalServerError}
                 /\ matches # {} =>
                       listed'.status \in {StatusOK, StatusInternalServerError}
                 /\ listed'.status = StatusOK =>
                       /\ listed'.profile \in matches
                       /\ ProfilesOf(profiles, agentID) # {}
                             => listed'.profile.agent_id = agentID
                 /\ (\E i \in Procs : Succeeded(i) /\ req[i].agentID = agentID) =>
                       /\ listed'.status \in {StatusOK, StatusInternalServerError}
                       /\ listed'.status = StatusOK
                             => listed'.profile.agent_id = agentID]_vars

\* The profile of an agent whose enrichment failed, still the placeholder, is
\* returned after the 201.
C30_Witness ==
    \E i \in Procs :
        /\ Succeeded(i) /\ job[i].pc = "done" /\ job[i].err # ""
        /\ listed # NoReply /\ listed.handler = "profile" /\ listed.status = StatusOK
        /\ listed.profile.agent_id = req[i].agentID
        /\ listed.profile.status = Empty

\* C22: the calls of a running enrichment job are made under a context that
\* comes from context.Background(): the request's context being cancelled,
\* because the client went away or because the handler has returned, does not
\* cancel it; and the step in which a client goes away changes no job, no log
\* and no document.
C22_RequestCancellationDoesNotReachJob ==
    [][\A i \in Procs :
          /\ JobRunning(i) =>
                /\ RequestCtxDone(i)
                /\ job[i].ctx = "background" /\ ~JobCtxDone(i)
          /\ req'[i].cancelled # req[i].cancelled =>
                /\ job' = job /\ logs' = logs
                /\ profiles' = profiles /\ agents' = agents
          /\ (job'[i] # job[i] /\ job[i].pc # "none") =>
                job'[i].ctx \in {"background", ""} /\ ~JobCtxDone(i)]_vars

\* The client left after the 201, before the job was started, and the job
\* has enriched the profile.
C22_Witness ==
    \E i \in Procs :
        /\ req[i].cancelled = "launch" /\ Succeeded(i)
        /\ job[i].pc = "done" /\ job[i].err = ""
        /\ \E d \in ProfilesOf(profiles, req[i].agentID) : d.status # Empty

\* C23: every external call of create-agent is issued under a deadline of its
\* own, so that a create-agent request that has been received is eventually
\* answered. The handler does not keep this: GenerateImage is called with the
\* request's context, which has no deadline, and a request whose image
\* generation never answers is never answered.
C23_CreateAgentEventuallyReturns ==
    \A i \in Procs : (req[i].pc # "idle") ~> Returned(i)

\* A request in its image generation, the one call without a deadline, after
\* calls that have one.
C23_WaitingWithoutDeadline ==
    \E i \in Procs :
        /\ req[i].pc = "image" /\ ~HasDeadline("image")
        /\ req[i].calls = <<"llm", "insert", "find">>
        /\ \A n \in 1..Len(req[i].calls) : HasDeadline(req[i].calls[n])
        /\ req[i].cancelled = ""

\* The object invocation i has stored in object storage, if it has stored one.
StoredBy(i) ==
    IF req[i].agentID = NoID THEN {}
    ELSE {key \in objects : key = ObjectKey(ObjectName(req[i].agentID))}

\* The contents of the request SendPrompt has issued for the message at
\* position k of the history: the snapshot taken with the append of the
\* message, that is the history up to and including it.
RequestAt(h, k) == messagesToContents(SubSeq(h, 1, k))

\* C33: requests are independent of one another: the content sent to the
\* text-generation service for a chat is determined by the agent's stored
\* system prompt and the prompt alone, that is, it is the combined prompt and
\* nothing of earlier or concurrent requests. The code does not keep this: the
\* handlers share one client, whose SendPrompt sends the conversation it has
\* accumulated over all requests.
C33_ChatRequestIsCombinedPromptAlone ==
    \A k \in ChatMessages(history) :
        RequestAt(history, k) = <<[role |-> "user", text |-> history[k].content]>>

\* A chat whose request carries, before the combined prompt, the prompts and
\* answers of the create-agent calls of two agents.
C33_ChatRequestCarriesOtherRequests ==
    /\ listed # NoReply /\ listed.handler = "chat" /\ listed.sent # <<>>
    /\ \E k \in ChatMessages(history) :
          /\ history[k].content = listed.sent
          /\ Len(RequestAt(history, k)) >= 5
          /\ RequestAt(history, k)[k].text = listed.sent

\* C37: after create-agent has returned, with success or with an error, every
\* object the invocation has stored is the portrait reference of an Agent
\* document that exists. The handler does not keep this: when the update of
\* the reference or the placeholder upsert fails after the upload, cleanupAgent
\* deletes the Agent document and nothing deletes the object.
C37_NoOrphanedPortraitObject ==
    \A i \in Procs :
        Returned(i) =>
            \A key \in StoredBy(i) : \E a \in agents : a.base_url = httpURL(key)

\* An invocation that has uploaded its portrait, failed at the placeholder
\* upsert and was compensated: its Agent document is gone, its object stays.
C37_OrphanedObjectAfterCompensation ==
    \E i \in Procs :
        /\ Returned(i) /\ ~Succeeded(i)
        /\ req[i].failed = "placeholder"
        /\ StoredBy(i) # {}
        /\ Matching(agents, req[i].agentID) = {}

C38_ResponseAgreesWithListedAgent ==
    \A i \in Procs :
        (Succeeded(i) /\ listed # NoReply /\ listed.handler = "list"
                      /\ listed.status = StatusOK) =>
            \E item \in listed.agents : item = req[i].response.body

\* list-agents after a successful create-agent: the agent is listed with the
\* name, personality, gender, appearance and portrait of the response, and
\* with another profile_image_url.
C38_ListedWithoutProfileImage ==
    \E i \in Procs :
        /\ Succeeded(i)
        /\ listed # NoReply /\ listed.handler = "list" /\ listed.status = StatusOK
        /\ \E item \in listed.agents :
              /\ item.id = req[i].response.body.id
              /\ [item EXCEPT !.profile_image_url = Empty]
                    = [req[i].response.body EXCEPT !.profile_image_url = Empty]
              /\ item.profile_image_url = Empty
              /\ req[i].response.body.profile_image_url = httpURL(ObjectKey(ObjectName(req[i].agentID)))

\* The message at position k of the history was appended by call n of caller i.
WrittenBy(k, i, n) == llm.turns[k].caller = i /\ llm.turns[k].n = n

\* C31: every request SendPrompt issues contains, in history order, every
\* message stored in the history up to and including the prompt of the call,
\* for any sequence of earlier SendPrompt and ResetHistory calls. The roles
\* are sent as the service's roles, the texts as stored.
C31_RequestCarriesWholeHistory ==
    [][\A i \in Procs :
          (llm.call[i].pc # "sending" /\ llm'.call[i].pc = "sending") =>
              LET request == llm'.call[i].request
              IN  /\ Len(request) = Len(history) + 1
                  /\ Len(history') = Len(history) + 1
                  /\ \A k \in 1..Len(history) :
                        /\ request[k].text = history[k].content
                        /\ request[k].role = normalizeAPIRole(history[k].role)
                  /\ request[Len(request)].text = TrimSpace(llm'.call[i].prompt)
                  /\ history'[Len(history')].content = TrimSpace(llm'.call[i].prompt)]_vars

\* A call that began after a reset and after a later call of another caller:
\* its request carries the message of that call and its own prompt.
C31_Witness ==
    \E i \in Procs :
        /\ llm.call[i].pc = "sending" /\ llm.resets = 1
        /\ Len(llm.call[i].request) = 2
        /\ Len(history) = 2
        /\ ~WrittenBy(1, i, llm.call[i].n)
        /\ WrittenBy(2, i, llm.call[i].n)

\* C32: ResetHistory clears all stored chat context: after it has returned
\* the history holds no message of a conversation turn that started before
\* the reset, also when a SendPrompt call was in flight during the reset. The
\* client does not keep this: the call in flight appends its assistant message
\* when its response arrives, after the reset.
C32_NoMessageOfTurnBeforeReset ==
    \A k \in 1..Len(llm.turns) : llm.turns[k].epoch = llm.resets

\* After the reset the history begins with the answer to a prompt sent before
\* the reset, without that prompt.
C32_AnswerOfEarlierTurnAfterReset ==
    /\ llm.resets = 1 /\ Len(history) >= 1
    /\ history[1].role = "assistant"
    /\ llm.turns[1].epoch = 0

\* C34: whenever SendPrompt returns an error, the history is as before the
\* call: no message of the call is in it. The client keeps this for a blank
\* prompt only: every later error leaves the call's user message in the
\* history.
C34_FailedCallLeavesNoMessage ==
    \A i \in Procs :
        (llm.call[i].pc = "returned" /\ llm.call[i].err # "") =>
            \A k \in 1..Len(llm.turns) : ~WrittenBy(k, i, llm.call[i].n)

\* The only call made on the client has returned a transport error: the
\* history, empty before the call, holds the call's prompt.
C34_PromptKeptAfterError ==
    \E i \in Procs :
        /\ llm.call[i].pc = "returned" /\ llm.call[i].err = "send request"
        /\ llm.call[i].n = 1 /\ llm.resets = 0
        /\ \A j \in Procs \ {i} : llm.call[j].n = 0
        /\ history = <<[role |-> "user", content |-> TrimSpace(llm.call[i].prompt)]>>

\* C35: in the history every assistant message is immediately preceded by the
\* user message it answers, in every interleaving of concurrent SendPrompt
\* calls. The client does not keep this: the two appends of a call are two
\* critical sections, and another call's user message can come between them.
C35_AnswerFollowsItsPrompt ==
    \A k \in 1..Len(history) :
        history[k].role = "assistant" =>
            /\ k > 1
            /\ history[k - 1].role # "assistant"
            /\ WrittenBy(k - 1, llm.turns[k].caller, llm.turns[k].n)

\* Two concurrent calls and no reset: the prompt of the second call stands
\* between the prompt of the first call and its answer.
C35_InterleavedTurns ==
    /\ llm.resets = 0 /\ Len(history) = 3
    /\ history[1].role # "assistant" /\ history[2].role # "assistant"
    /\ history[3].role = "assistant"
    /\ llm.turns[3].caller = llm.turns[1].caller
    /\ llm.turns[2].caller # llm.turns[1].caller

\* The Login calls that have returned for the user id, and those of them that
\* have reported is_new true.
LoginReports(uid) ==
    {<<i, k>> \in Procs \X (1..MaxLogins) :
        k <= Len(login[i].reports) /\ login[i].reports[k].uid = uid}

NewReports(uid) == {c \in LoginReports(uid) : login[c[1]].reports[c[2]].is_new}

\* C39: for any sequence or interleaving of Login calls with valid tokens of
\* one user id, the users collection holds exactly one document for the user
\* id and is_new is reported true by exactly one of the calls. The handler
\* does not keep this: its upsert filters on uid, on which no unique index
\* exists, so that two concurrent first logins both match no document, both
\* insert, and both report is_new true.
C39_OneDocumentAndOneNewReport ==
    \A uid \in {"u1", "u2"} :
        (\E c \in LoginReports(uid) : login[c[1]].reports[c[2]].status = StatusOK) =>
            /\ Cardinality(UsersOf(users, uid)) = 1
            /\ Cardinality(NewReports(uid)) = 1

\* Two concurrent logins of one user, no call having failed: two documents
\* for the user id, and both calls answered 200 with is_new true.
C39_TwoDocumentsTwoNewReports ==
    \E uid \in {"u1", "u2"} :
        /\ Cardinality(UsersOf(users, uid)) = 2
        /\ Cardinality(NewReports(uid)) = 2
        /\ \A c \in LoginReports(uid) : login[c[1]].reports[c[2]].status = StatusOK

====
